---------------------------- MODULE Spec2Model ----------------------------
(***************************************************************************)
(* NYC taxi trip pipeline: the hand-written algorithm library             *)
(* (custom_algorithms.py), the cleaning pipeline (data_cleaner.py) and    *)
(* the feature-engineering pipeline (feature_engineering.py).             *)
(*                                                                         *)
(* Conventions.                                                            *)
(*  - Python lists are sequences; a Python index i is the TLA+ index i+1. *)
(*    key_index, the indices returned by detect_outliers_iqr and the      *)
(*    heap indices keep their Python (0-based) values.                     *)
(*  - CSV fields are strings, as in the source.  The conversions int(),   *)
(*    float() and datetime.strptime() are functions from the strings of   *)
(*    the model to what Python returns for them (a value or ValueError).  *)
(*  - Percentiles of integer values are exact multiples of 1/100; they    *)
(*    are carried as integers in hundredths (PctScale).                    *)
(***************************************************************************)
EXTENDS Integers, Sequences, FiniteSets, TLC

VARIABLES
    pc,           \* position of the running call / pipeline
    arr,          \* quick_sort / find_top_k: the list of tuples passed in
    reverse,      \* quick_sort: the reverse flag
    values,       \* calculate_percentiles / detect_outliers_iqr: the numbers
    percentiles,  \* calculate_percentiles: the requested percentiles
    multiplier,   \* detect_outliers_iqr: the IQR multiplier, in hundredths
    k,            \* find_top_k: the number of items asked for
    data,         \* custom_group_by: the list of dicts passed in
    group_key,    \* custom_group_by: the field to group on
    points,       \* calculate_distance: <<lat1, lon1, lat2, lon2>>
    database,     \* loader: the tables trips and trip_statistics
    heap,         \* find_top_k: the min-heap of the items kept so far
    idx,          \* find_top_k: Python index of the next item of the loop
    result,       \* value returned by the library call
    raised,       \* "None", or the exception that ended the call / the run
    input_file,   \* pipeline: the file at self.input_file, if it exists
    raw_data,     \* pipeline: the dicts read, in file order
    cleaned_data, \* pipeline: the working list, as positions in raw_data
    stats,        \* pipeline: self.stats
    output_file,  \* pipeline: the file at self.output_file, once written
    report_file   \* pipeline: the report, once written, with its statistics

\* the arguments of the library calls, and with them the database, which
\* only the loader touches
callArgs ==
    <<arr, reverse, values, percentiles, multiplier, k, data, group_key, points>>
libArgs == <<callArgs, database>>
libVars == <<libArgs, heap, idx, result>>
\* TaxiDataCleaner and TaxiFeatureEngineer have the same fields; a
\* specification runs one of them
cleanerVars ==
    <<input_file, raw_data, cleaned_data, stats, output_file, report_file>>
vars == <<pc, raised, libVars, cleanerVars>>

\* the arguments no call of the specification at hand uses
NoSortArgs == arr = <<>> /\ reverse = FALSE
NoValueArgs == values = <<>> /\ percentiles = <<>> /\ multiplier = 0
NoHeap == k = 0 /\ heap = <<>> /\ idx = 0
NoGroupArgs == data = <<>> /\ group_key = ""
NoPoints == points = <<>>
NoDatabase == database = <<>>
NoFile == [exists |-> FALSE, header |-> <<>>, rows |-> <<>>]
NoReport == [exists |-> FALSE, stats |-> <<>>]
NoCleaner ==
    /\ input_file = NoFile
    /\ raw_data = <<>>
    /\ cleaned_data = <<>>
    /\ stats = <<>>
    /\ output_file = NoFile
    /\ report_file = NoReport

-----------------------------------------------------------------------------
(* Bounds of the model                                                     *)

MaxLen == 5
MaxKey == 2

-----------------------------------------------------------------------------
(* Generic helpers                                                         *)

Range(s) == {s[i] : i \in 1..Len(s)}

SeqsUpTo(S, n) == UNION {[1..m -> S] : m \in 0..n}

RECURSIVE SumSeq(_)
SumSeq(s) == IF Len(s) = 0 THEN 0 ELSE s[1] + SumSeq(Tail(s))

\* Python's a[i] for a list a and a 0-based index i
At(a, i) == a[i + 1]

\* [(v, i) for i, v in enumerate(values)]
Enumerate(vals) == [i \in 1..Len(vals) |-> <<vals[i], i - 1>>]

-----------------------------------------------------------------------------
(* custom_algorithms.py : quick_sort                                       *)

key_index == 0

\* a comparison that ignores the reverse flag
GoesLeftAscendingOnly(item_value, pivot_value, rev) ==
    item_value < pivot_value

\* the test of line 44: the item goes to the bucket sorted first
GoesLeft(item_value, pivot_value, rev) ==
    \/ (~rev /\ item_value < pivot_value)
    \/ (rev /\ item_value > pivot_value)

pivot_of(a) == At(a, Len(a) \div 2)

left_bucket(a, ki, rev) ==
    SelectSeq(a, LAMBDA item : GoesLeft(At(item, ki), At(pivot_of(a), ki), rev))

Reversed(s) == [i \in 1..Len(s) |-> s[Len(s) + 1 - i]]

\* the equal bucket filled from the front (middle.insert(0, item))
middle_bucket_prepend(a, ki, rev) ==
    Reversed(SelectSeq(a, LAMBDA item :
        /\ ~GoesLeft(At(item, ki), At(pivot_of(a), ki), rev)
        /\ At(item, ki) = At(pivot_of(a), ki)))

middle_bucket(a, ki, rev) ==
    SelectSeq(a, LAMBDA item :
        /\ ~GoesLeft(At(item, ki), At(pivot_of(a), ki), rev)
        /\ At(item, ki) = At(pivot_of(a), ki))

right_bucket(a, ki, rev) ==
    SelectSeq(a, LAMBDA item :
        /\ ~GoesLeft(At(item, ki), At(pivot_of(a), ki), rev)
        /\ At(item, ki) # At(pivot_of(a), ki))

RECURSIVE quick_sort(_, _, _)
quick_sort(a, ki, rev) ==
    IF Len(a) <= 1 THEN a
    ELSE quick_sort(left_bucket(a, ki, rev), ki, rev)
         \o middle_bucket(a, ki, rev)
         \o quick_sort(right_bucket(a, ki, rev), ki, rev)

-----------------------------------------------------------------------------
(* Specification SpecSort: quick_sort applied to a bounded list of tuples  *)

\* the list of section 8 of the specification
SortInstance == << <<5, "a">>, <<5, "b">>, <<3, "c">> >>

SortInputs ==
    {Enumerate(ks) : ks \in SeqsUpTo(0..MaxKey, MaxLen)} \cup {SortInstance}

SortInit ==
    /\ NoGroupArgs /\ NoPoints /\ NoDatabase
    /\ pc = "start"
    /\ arr \in SortInputs
    /\ reverse \in BOOLEAN
    /\ NoValueArgs
    /\ NoHeap
    /\ result = <<>>
    /\ raised = "None"
    /\ NoCleaner

QuickSort ==
    /\ pc = "start"
    /\ result' = quick_sort(arr, key_index, reverse)
    /\ pc' = "done"
    /\ UNCHANGED <<libArgs, heap, idx, raised, cleanerVars>>

SortNext == QuickSort

SpecSort == SortInit /\ [][SortNext]_vars

KeysOf(a) == {At(a[i], key_index) : i \in 1..Len(a)}

WithKey(a, v) == SelectSeq(a, LAMBDA item : At(item, key_index) = v)

Count(x, a) == Cardinality({i \in 1..Len(a) : a[i] = x})

IsPermutation(a, b) ==
    /\ Len(a) = Len(b)
    /\ \A x \in Range(a) \cup Range(b) : Count(x, a) = Count(x, b)

\* keys non-decreasing (reverse = FALSE) or non-increasing (reverse = TRUE)
Ordered(a, rev) ==
    \A i \in 1..Len(a) - 1 :
        IF rev THEN At(a[i], key_index) >= At(a[i + 1], key_index)
               ELSE At(a[i], key_index) <= At(a[i + 1], key_index)

\* every call of the recursion on `a` passes strictly shorter lists down,
\* and the pivot is in the equal bucket
RECURSIVE CallsShrink(_, _)
CallsShrink(a, rev) ==
    \/ Len(a) <= 1
    \/ /\ pivot_of(a) \in Range(middle_bucket(a, key_index, rev))
       /\ Len(left_bucket(a, key_index, rev)) < Len(a)
       /\ Len(right_bucket(a, key_index, rev)) < Len(a)
       /\ Len(left_bucket(a, key_index, rev)) + Len(middle_bucket(a, key_index, rev))
            + Len(right_bucket(a, key_index, rev)) = Len(a)
       /\ CallsShrink(left_bucket(a, key_index, rev), rev)
       /\ CallsShrink(right_bucket(a, key_index, rev), rev)

\* C4: quick_sort is stable for reverse = FALSE and reverse = TRUE: the items
\* of each key come out in their input order; the list of section 8 sorted
\* ascending is [(3,"c"),(5,"a"),(5,"b")].
C4_SortStable ==
    pc = "done" =>
        /\ \A v \in KeysOf(arr) : WithKey(result, v) = WithKey(arr, v)
        /\ (arr = SortInstance /\ ~reverse) =>
               result = << <<3, "c">>, <<5, "a">>, <<5, "b">> >>

\* a descending sort that had to move items while two of them tie
C4_Witness ==
    /\ pc = "done"
    /\ reverse
    /\ result # arr
    /\ \E i, j \in 1..Len(arr) :
          i < j /\ At(arr[i], key_index) = At(arr[j], key_index)

\* C5: quick_sort terminates (each recursive call gets strictly fewer items,
\* the pivot being in the equal bucket) and returns a permutation of its input
\* ordered by key, ascending or descending as reverse says; a list of 0 or 1
\* items comes back unchanged.
C5_SortCorrect ==
    /\ CallsShrink(arr, reverse)
    /\ pc = "done" =>
          /\ IsPermutation(result, arr)
          /\ Ordered(result, reverse)
          /\ Len(arr) <= 1 => result = arr

\* a descending sort of a list of MaxLen items with three different keys
C5_Witness ==
    /\ pc = "done"
    /\ reverse
    /\ Len(arr) >= 4
    /\ Cardinality(KeysOf(arr)) = 3
    /\ result # arr

-----------------------------------------------------------------------------
(* custom_algorithms.py : calculate_percentiles                            *)

\* the divisor of `p / 100.0`; also the unit (hundredths) in which the
\* percentiles, quartiles and the multiplier are carried
PctScale == 100

Min(a, b) == IF a < b THEN a ELSE b

\* {} and {k: v, ...}: a Python dict is a function on its set of keys
EmptyDict == [x \in {} |-> x]

\* lines 108-109: the values sorted through quick_sort on (value, index)
sorted_values_of(vals) ==
    LET sorted_tuples == quick_sort(Enumerate(vals), key_index, FALSE)
    IN  [i \in 1..Len(sorted_tuples) |-> At(sorted_tuples[i], 0)]

\* the interpolation with the two weights exchanged
interpolate_swapped(sv, lower_index, upper_index, weight) ==
    At(sv, lower_index) * weight + At(sv, upper_index) * (PctScale - weight)

\* lines 130-131, in hundredths: weight is 100 * (position - lower_index)
interpolate(sv, lower_index, upper_index, weight) ==
    At(sv, lower_index) * (PctScale - weight) + At(sv, upper_index) * weight

\* lines 118-131 for one p with 0 <= p <= 100, in hundredths
percentile_of_sorted(sv, p) ==
    LET n == Len(sv)
    IN  IF p = 0 THEN PctScale * At(sv, 0)
        ELSE IF p = 100 THEN PctScale * At(sv, n - 1)
        ELSE LET position == p * (n - 1)            \* 100 * position
                 lower_index == position \div PctScale
                 upper_index == Min(lower_index + 1, n - 1)
                 weight == position - PctScale * lower_index
             IN  interpolate(sv, lower_index, upper_index, weight)

calculate_percentiles(vals, ps) ==
    IF Len(vals) = 0
    THEN [p \in Range(ps) |-> 0]
    ELSE [p \in {q \in Range(ps) : ~(q < 0 \/ q > 100)} |->
              percentile_of_sorted(sorted_values_of(vals), p)]

\* the sign of sorted_values[lower_index] * (1 - weight) +
\* sorted_values[upper_index] * weight - v in float arithmetic (lines 129-130)
\* when both neighbours are the float of the integer v and len(values) = n:
\* the two products do not always add v back; <<p, n, v>> is absent when the
\* sum is v
interpolation_drift ==
    (  <<10, 3, 3>> :> 1
    @@ <<10, 3, 6>> :> 1
    @@ <<10, 3, 7>> :> 1)

\* the sign of the float calculate_percentiles(vals, [p])[p] minus the
\* common value of its two neighbours, 0 when the neighbours differ
percentile_rounding(vals, p) ==
    LET sv == sorted_values_of(vals)
        n == Len(sv)
        lower_index == (p * (n - 1)) \div PctScale
        upper_index == Min(lower_index + 1, n - 1)
    IN  IF p = 0 \/ p = 100 THEN 0
        ELSE IF sv[lower_index + 1] # sv[upper_index + 1] THEN 0
        ELSE IF <<p, n, sv[lower_index + 1]>> \in DOMAIN interpolation_drift
        THEN interpolation_drift[<<p, n, sv[lower_index + 1]>>]
        ELSE 0

-----------------------------------------------------------------------------
(* custom_algorithms.py : detect_outliers_iqr                              *)

\* a test that only looks above the upper bound
IsOutlierUpperOnly(value, lower_bound, upper_bound) ==
    value * PctScale * PctScale > upper_bound

\* line 154 with the comparison made in units of 1/(PctScale * PctScale)
IsOutlier(value, lower_bound, upper_bound) ==
    \/ value * PctScale * PctScale < lower_bound
    \/ value * PctScale * PctScale > upper_bound

\* range(len(vals)): the Python indices of a list, in increasing order
IndicesOf(vals) == [i \in 1..Len(vals) |-> i - 1]

\* q1, q3, iqr in hundredths; the bounds in units of 1/(PctScale * PctScale),
\* the multiplier m being given in hundredths
iqr_stats(q1, q3, m, outlier_indices) ==
    [q1 |-> q1, q3 |-> q3, iqr |-> q3 - q1,
     lower_bound |-> PctScale * q1 - m * (q3 - q1),
     upper_bound |-> PctScale * q3 + m * (q3 - q1),
     outlier_count |-> Len(outlier_indices)]

\* returns <<outlier_indices, stats>>
\* the rule with the early return of lines 141-142 taken below 2 values
detect_outliers_iqr_from_two(vals, m) ==
    IF Len(vals) < 2 THEN <<<<>>, EmptyDict>>
    ELSE LET pcts == calculate_percentiles(vals, <<25, 75>>)
             q1 == pcts[25]
             q3 == pcts[75]
             iqr == q3 - q1
             lower_bound == PctScale * q1 - m * iqr
             upper_bound == PctScale * q3 + m * iqr
             outlier_indices ==
                 SelectSeq(IndicesOf(vals), LAMBDA i :
                     IsOutlier(At(vals, i), lower_bound, upper_bound))
         IN  <<outlier_indices, iqr_stats(q1, q3, m, outlier_indices)>>

detect_outliers_iqr(vals, m) ==
    IF Len(vals) < 4 THEN <<<<>>, EmptyDict>>
    ELSE LET pcts == calculate_percentiles(vals, <<25, 75>>)
             q1 == pcts[25]
             q3 == pcts[75]
             iqr == q3 - q1
             lower_bound == PctScale * q1 - m * iqr
             upper_bound == PctScale * q3 + m * iqr
             outlier_indices ==
                 SelectSeq(IndicesOf(vals), LAMBDA i :
                     IsOutlier(At(vals, i), lower_bound, upper_bound))
         IN  <<outlier_indices, iqr_stats(q1, q3, m, outlier_indices)>>

-----------------------------------------------------------------------------
(* Specification SpecPercentile: calculate_percentiles on bounded lists    *)

ValueLists == SeqsUpTo(0..MaxKey, MaxLen)

\* [1..10], the list of section 8 of the specification
OneToTen == [i \in 1..10 |-> i]
ThreeThrees == <<3, 3, 3>>

\* the percentiles the repository and its specification ask for, and two
\* requests outside 0..100
RequestedPercentiles == {-5, 0, 10, 25, 50, 75, 90, 95, 100, 150}

PercentileRequests ==
    {<<p>> : p \in RequestedPercentiles} \cup {<<25, 75>>, <<10, 90>>, <<>>}

PercentileInit ==
    /\ NoGroupArgs /\ NoPoints /\ NoDatabase
    /\ pc = "start"
    /\ values \in ValueLists \cup {OneToTen, ThreeThrees}
    /\ percentiles \in PercentileRequests
    /\ multiplier = 0
    /\ NoSortArgs
    /\ NoHeap
    /\ result = <<>>
    /\ raised = "None"
    /\ NoCleaner

\* the call without lines 104-105: sorted_values[0] of an empty list raises
\* IndexError
CalculatePercentilesUnguarded ==
    /\ pc = "start"
    /\ IF Len(values) = 0 /\ Len(percentiles) > 0
       THEN raised' = "IndexError" /\ UNCHANGED result
       ELSE result' = calculate_percentiles(values, percentiles) /\ UNCHANGED raised
    /\ pc' = "done"
    /\ UNCHANGED <<libArgs, heap, idx, cleanerVars>>

CalculatePercentiles ==
    /\ pc = "start"
    /\ result' = calculate_percentiles(values, percentiles)
    /\ pc' = "done"
    /\ UNCHANGED <<libArgs, heap, idx, raised, cleanerVars>>

PercentileNext == CalculatePercentiles

SpecPercentile == PercentileInit /\ [][PercentileNext]_vars

\* the value of rank i (from 0) of vals in ascending order, by counting
OrderStat(vals, i) ==
    CHOOSE x \in Range(vals) :
        /\ Cardinality({j \in 1..Len(vals) : vals[j] < x}) <= i
        /\ i < Cardinality({j \in 1..Len(vals) : vals[j] <= x})

MinOf(vals) == CHOOSE x \in Range(vals) : \A y \in Range(vals) : x <= y
MaxOf(vals) == CHOOSE x \in Range(vals) : \A y \in Range(vals) : x >= y

\* position = (p/100)*(n-1), lo = floor(position), hi = min(lo+1, n-1) and
\* w = position - lo, the last in hundredths
RankLo(n, p) == (p * (n - 1)) \div 100
RankHi(n, p) == Min(RankLo(n, p) + 1, n - 1)
RankW(n, p) == (p * (n - 1)) % 100

\* s[lo]*(1-w) + s[hi]*w over the ascending order of vals, in hundredths
InterpolatedRank(vals, p) ==
    LET n == Len(vals)
    IN  OrderStat(vals, RankLo(n, p)) * (100 - RankW(n, p))
        + OrderStat(vals, RankHi(n, p)) * RankW(n, p)

\* C6: for a non-empty list and p in [0,100], calculate_percentiles gives
\* min(v) for p = 0, max(v) for p = 100 and otherwise s[lo]*(1-w) + s[hi]*w
\* with lo and hi inside 0..n-1; Percentile([1..10],50) = 5.5 and
\* Percentile([1..10],25) = 3.25.
C6_Percentile ==
    (pc = "done" /\ Len(values) > 0) =>
        /\ \A p \in Range(percentiles) \cap 0..100 :
              /\ p \in DOMAIN result
              /\ RankLo(Len(values), p) \in 0..Len(values) - 1
              /\ RankHi(Len(values), p) \in 0..Len(values) - 1
              /\ result[p] = IF p = 0 THEN 100 * MinOf(values)
                             ELSE IF p = 100 THEN 100 * MaxOf(values)
                             ELSE InterpolatedRank(values, p)
        /\ (values = OneToTen /\ percentiles = <<50>>) => result[50] = 550
        /\ (values = OneToTen /\ percentiles = <<25>>) => result[25] = 325

\* a percentile strictly between two different values of an unsorted list
C6_Witness ==
    /\ pc = "done"
    /\ Len(values) = MaxLen
    /\ \E i \in 1..Len(values) - 1 : values[i] > values[i + 1]
    /\ \E p \in DOMAIN result :
          /\ 0 < p /\ p < 100
          /\ RankW(Len(values), p) # 0
          /\ OrderStat(values, RankLo(Len(values), p))
               # OrderStat(values, RankHi(Len(values), p))

\* C21: calculate_percentiles on an empty list does not raise and returns
\* the sentinel 0.0 for each requested percentile
C21_EmptySentinel ==
    (pc = "done" /\ Len(values) = 0) =>
        /\ raised = "None"
        /\ \A p \in Range(percentiles) : p \in DOMAIN result /\ result[p] = 0

\* the call of the pattern step, [10, 90], on an empty list
C21_Witness ==
    /\ pc = "done"
    /\ values = <<>>
    /\ percentiles = <<10, 90>>
    /\ result = (10 :> 0 @@ 90 :> 0)

\* the requested percentiles that lie in [0, 100]
InRange == {p \in Range(percentiles) : 0 <= p /\ p <= 100}

\* C29 as stated: for every list, empty or not, the mapping returned by
\* calculate_percentiles has an entry for exactly the requested p with
\* 0 <= p <= 100; a requested p below 0 or above 100 gets no entry
C29_Entries ==
    pc = "done" => DOMAIN result = InRange

\* the part of C29 the code keeps: on a list that is not empty the entries
\* are exactly the requested p in [0, 100]
EntriesNonEmpty ==
    (pc = "done" /\ Len(values) > 0) => DOMAIN result = InRange

\* a request above 100 on a list that is not empty: no entry
SkippedOutOfRange ==
    /\ pc = "done"
    /\ Len(values) = 2
    /\ percentiles = <<150>>
    /\ result = EmptyDict

\* a request above 100 on the empty list: an entry
SentinelOutOfRange ==
    /\ pc = "done"
    /\ values = <<>>
    /\ percentiles = <<150>>
    /\ DOMAIN result = {150}

-----------------------------------------------------------------------------
(* Specification SpecIqr: detect_outliers_iqr on bounded lists             *)

\* -1.0, 0, 0.5, 1.5 (the default) and 2.0 (the cleaning pipeline), in
\* hundredths
Multipliers == {-100, 0, 50, 150, 200}

IqrInit ==
    /\ NoGroupArgs /\ NoPoints /\ NoDatabase
    /\ pc = "start"
    /\ values \in ValueLists
    /\ multiplier \in Multipliers
    /\ percentiles = <<>>
    /\ NoSortArgs
    /\ NoHeap
    /\ result = <<>>
    /\ raised = "None"
    /\ NoCleaner

DetectOutliersIqr ==
    /\ pc = "start"
    /\ result' = detect_outliers_iqr(values, multiplier)
    /\ pc' = "done"
    /\ UNCHANGED <<libArgs, heap, idx, raised, cleanerVars>>

IqrNext == DetectOutliersIqr

SpecIqr == IqrInit /\ [][IqrNext]_vars

\* value v lies strictly outside [Q1 - m*IQR, Q3 + m*IQR], Q1 and Q3 being
\* the 25th and 75th percentiles of vals (m in hundredths)
StrictlyOutside(v, vals, m) ==
    LET Q1 == InterpolatedRank(vals, 25)
        Q3 == InterpolatedRank(vals, 75)
    IN  \/ 10000 * v < 100 * Q1 - m * (Q3 - Q1)
        \/ 10000 * v > 100 * Q3 + m * (Q3 - Q1)

\* what detect_outliers_iqr is to return for values and multiplier
IqrContract ==
    LET outlier_indices == result[1]
        returned == result[2]
        Q1 == InterpolatedRank(values, 25)
        Q3 == InterpolatedRank(values, 75)
    IN  /\ {"lower_bound", "upper_bound", "outlier_count"} \subseteq DOMAIN returned
        /\ returned.lower_bound = 100 * Q1 - multiplier * (Q3 - Q1)
        /\ returned.upper_bound = 100 * Q3 + multiplier * (Q3 - Q1)
        /\ \A i \in 0..Len(values) - 1 :
              i \in Range(outlier_indices)
                  <=> StrictlyOutside(At(values, i), values, multiplier)
        /\ returned.outlier_count = Len(outlier_indices)
        /\ \A j \in 1..Len(outlier_indices) - 1 :
              outlier_indices[j] < outlier_indices[j + 1]

\* C7 as stated: for every non-empty list and every multiplier m,
\* detect_outliers_iqr returns the bounds Q1 - m*IQR and Q3 + m*IQR, an index
\* is returned exactly when its value is strictly outside them, outlier_count
\* is the number of indices and the indices increase.
C7_IqrAnyNonEmpty ==
    (pc = "done" /\ Len(values) > 0) => IqrContract

\* C7 as amended: the same for every list of at least 4 values; a shorter
\* list gets no indices and no bounds.
C7_IqrFourOrMore ==
    /\ (pc = "done" /\ Len(values) >= 4) => IqrContract
    /\ (pc = "done" /\ Len(values) < 4) => result = <<<<>>, EmptyDict>>

\* a call that reports some values and not others, one of them below the
\* lower bound
C7_Witness ==
    /\ pc = "done"
    /\ Len(values) >= 4
    /\ Len(result[1]) >= 1
    /\ Len(result[1]) < Len(values)
    /\ \E j \in 1..Len(result[1]) :
          10000 * At(values, result[1][j]) < result[2].lower_bound

\* x <= y for two floats given by their exact values in hundredths and the
\* signs of their rounding
FloatLeq(x, dx, y, dy) == x < y \/ (x = y /\ dx <= dy)

\* min(v) <= Percentile(v, p) <= max(v) for every entry of the result
PercentilesBounded ==
    \A p \in DOMAIN result :
        /\ FloatLeq(PctScale * MinOf(values), 0,
                    result[p], percentile_rounding(values, p))
        /\ FloatLeq(result[p], percentile_rounding(values, p),
                    PctScale * MaxOf(values), 0)

\* p <= q implies Percentile(v, p) <= Percentile(v, q)
PercentilesMonotone ==
    \A p, q \in DOMAIN result :
        p <= q => FloatLeq(result[p], percentile_rounding(values, p),
                           result[q], percentile_rounding(values, q))

\* Q1 <= Q3, IQR >= 0, lower_bound <= Q1 <= Q3 <= upper_bound for every
\* multiplier >= 0, and not every value is reported
QuartilesOrdered ==
    (pc = "done" /\ Len(values) >= 4) =>
        \A m \in {x \in Multipliers : x >= 0} :
            LET found == detect_outliers_iqr(values, m)
                st == found[2]
            IN  /\ st.q1 <= st.q3
                /\ st.iqr >= 0
                /\ st.lower_bound <= PctScale * st.q1
                /\ PctScale * st.q3 <= st.upper_bound
                /\ Len(found[1]) < Len(values)

\* C30: for a non-empty list the percentiles of calculate_percentiles lie
\* between min(v) and max(v) and do not decrease with p; hence Q1 <= Q3,
\* IQR >= 0 and, for a multiplier >= 0, lower_bound <= Q1 <= Q3 <=
\* upper_bound, so that at least one value is never reported as an outlier
C30_Bounded ==
    /\ (pc = "done" /\ Len(values) > 0) =>
          PercentilesBounded /\ PercentilesMonotone
    /\ QuartilesOrdered

\* the 10th percentile of [3, 3, 3] is 3.0000000000000004
AboveMaximum ==
    /\ pc = "done"
    /\ values = ThreeThrees
    /\ percentiles = <<10, 90>>
    /\ result[10] = 300 /\ percentile_rounding(values, 10) = 1
    /\ result[90] = 300 /\ percentile_rounding(values, 90) = 0

-----------------------------------------------------------------------------
(* custom_algorithms.py : find_top_k, _heapify_up, _heapify_down           *)

\* heap[i], heap[j] = heap[j], heap[i]
Swapped(h, i, j) == [h EXCEPT ![i + 1] = h[j + 1], ![j + 1] = h[i + 1]]

KeyAt(h, i, ki) == At(At(h, i), ki)

RECURSIVE _heapify_up(_, _, _)
_heapify_up(h, index, ki) ==
    LET parent_index == (index - 1) \div 2
    IN  IF index > 0 /\ KeyAt(h, index, ki) < KeyAt(h, parent_index, ki)
        THEN _heapify_up(Swapped(h, index, parent_index), parent_index, ki)
        ELSE h

\* a sift that looks at the left child only
RECURSIVE _heapify_down_left(_, _, _)
_heapify_down_left(h, index, ki) ==
    LET left_child == 2 * index + 1
        smallest == IF left_child < Len(h)
                       /\ KeyAt(h, left_child, ki) < KeyAt(h, index, ki)
                    THEN left_child ELSE index
    IN  IF smallest # index
        THEN _heapify_down_left(Swapped(h, index, smallest), smallest, ki)
        ELSE h

RECURSIVE _heapify_down(_, _, _)
_heapify_down(h, index, ki) ==
    LET left_child == 2 * index + 1
        right_child == 2 * index + 2
        smallest1 == IF left_child < Len(h)
                        /\ KeyAt(h, left_child, ki) < KeyAt(h, index, ki)
                     THEN left_child ELSE index
        smallest == IF right_child < Len(h)
                       /\ KeyAt(h, right_child, ki) < KeyAt(h, smallest1, ki)
                    THEN right_child ELSE smallest1
    IN  IF smallest # index
        THEN _heapify_down(Swapped(h, index, smallest), smallest, ki)
        ELSE h

-----------------------------------------------------------------------------
(* Specification SpecTopK: find_top_k, one step per item of the loop       *)

TopKInit ==
    /\ NoGroupArgs /\ NoPoints /\ NoDatabase
    /\ pc = "start"
    /\ arr \in SortInputs
    /\ k \in 0..MaxLen + 1
    /\ reverse = FALSE
    /\ NoValueArgs
    /\ heap = <<>>
    /\ idx = 0
    /\ result = <<>>
    /\ raised = "None"
    /\ NoCleaner

\* lines 259-260
find_top_k_all ==
    /\ pc = "start"
    /\ k >= Len(arr)
    /\ result' = quick_sort(arr, key_index, TRUE)
    /\ pc' = "done"
    /\ UNCHANGED <<libArgs, heap, idx, raised, cleanerVars>>

\* line 263
find_top_k_heap ==
    /\ pc = "start"
    /\ ~(k >= Len(arr))
    /\ heap' = <<>>
    /\ idx' = 0
    /\ pc' = "loop"
    /\ UNCHANGED <<libArgs, result, raised, cleanerVars>>

\* lines 265-271, one item; heap[0] of an empty list raises IndexError
find_top_k_item ==
    /\ pc = "loop"
    /\ idx < Len(arr)
    /\ LET item == At(arr, idx)
       IN  IF Len(heap) < k
           THEN /\ heap' = _heapify_up(Append(heap, item), Len(heap), key_index)
                /\ idx' = idx + 1
                /\ UNCHANGED <<pc, raised>>
           ELSE IF Len(heap) = 0
           THEN /\ raised' = "IndexError"
                /\ pc' = "raised"
                /\ UNCHANGED <<heap, idx>>
           ELSE IF At(item, key_index) > KeyAt(heap, 0, key_index)
           THEN /\ heap' = _heapify_down([heap EXCEPT ![1] = item], 0, key_index)
                /\ idx' = idx + 1
                /\ UNCHANGED <<pc, raised>>
           ELSE /\ idx' = idx + 1
                /\ UNCHANGED <<heap, pc, raised>>
    /\ UNCHANGED <<libArgs, result, cleanerVars>>

\* line 274
find_top_k_return ==
    /\ pc = "loop"
    /\ idx = Len(arr)
    /\ result' = quick_sort(heap, key_index, TRUE)
    /\ pc' = "done"
    /\ UNCHANGED <<libArgs, heap, idx, raised, cleanerVars>>

TopKNext ==
    \/ find_top_k_all
    \/ find_top_k_heap
    \/ find_top_k_item
    \/ find_top_k_return

SpecTopK == TopKInit /\ [][TopKNext]_vars

KeyList(a) == [i \in 1..Len(a) |-> At(a[i], key_index)]

\* the result holds n items, in non-increasing key order, whose keys are the
\* n largest keys of arr
IsTopOf(res, a, n) ==
    /\ Len(res) = n
    /\ \A j \in 1..n : At(res[j], key_index) = OrderStat(KeyList(a), Len(a) - j)
    /\ \A j \in 1..n : res[j] \in Range(a)

\* C8: for every k with 0 <= k <= len(items), find_top_k returns exactly k
\* items, their keys the k largest keys of the input in non-increasing
\* order; for k >= len(items) the result is quick_sort(items, reverse=True).
C8_TopK ==
    /\ (pc \in {"done", "raised"} /\ 0 <= k /\ k <= Len(arr)) =>
          (pc = "done" /\ IsTopOf(result, arr, k))
    /\ (pc \in {"done", "raised"} /\ k >= Len(arr)) =>
          (pc = "done" /\ result = quick_sort(arr, key_index, TRUE))

\* what the code does keep: the same for 1 <= k, and IndexError for k = 0 on
\* a non-empty list
C8_TopKFromOne ==
    /\ (pc \in {"done", "raised"} /\ 1 <= k /\ k <= Len(arr)) =>
          (pc = "done" /\ IsTopOf(result, arr, k))
    /\ (pc \in {"done", "raised"} /\ k >= Len(arr)) =>
          (pc = "done" /\ result = quick_sort(arr, key_index, TRUE))
    /\ (pc \in {"done", "raised"} /\ k = 0 /\ Len(arr) > 0) =>
          (pc = "raised" /\ raised = "IndexError")

\* the items of the loop already processed
Processed == SubSeq(arr, 1, idx)

\* every item of the heap has a key not below the key of its parent
MinHeap(h) ==
    \A i \in 1..Len(h) - 1 :
        KeyAt(h, (i - 1) \div 2, key_index) <= KeyAt(h, i, key_index)

\* the number of items of a with a key above x
KeysAbove(a, x) == Cardinality({i \in 1..Len(a) : At(a[i], key_index) > x})

\* the keys of h are, with their multiplicities, the m largest keys of a
TopKeys(h, a, m) ==
    /\ Len(h) = m
    /\ \A i \in 1..Len(h) : h[i] \in Range(a)
    /\ \A x \in KeysOf(a) : KeysAbove(h, x) = Min(m, KeysAbove(a, x))

\* between two items of the loop, for k >= 1
HeapShape ==
    (pc = "loop" /\ k >= 1) =>
        /\ Len(heap) = Min(k, idx)
        /\ MinHeap(heap)
        /\ TopKeys(heap, Processed, Min(k, idx))

\* an item whose key is not above the key of heap[0] when the heap is full
NotLarger ==
    /\ pc = "loop"
    /\ idx < Len(arr)
    /\ k >= 1
    /\ Len(heap) = k
    /\ At(At(arr, idx), key_index) <= KeyAt(heap, 0, key_index)

\* C28: for 1 <= k < len(items), after each item of the loop the heap of
\* find_top_k holds min(k, processed) items, is a min-heap on the key, and
\* its keys are the min(k, processed) largest keys processed so far; an item
\* whose key is not above the key of heap[0] leaves a full heap unchanged
C28_HeapInvariant ==
    /\ []HeapShape
    /\ [][NotLarger => (heap' = heap /\ idx' = idx + 1)]_vars

\* a full heap of three items with a right child below the left one, after
\* an item has replaced the minimum and an item has been passed over
C28_Witness ==
    /\ pc = "loop"
    /\ k = 3
    /\ idx = 5
    /\ Len(heap) = 3
    /\ KeyAt(heap, 2, key_index) < KeyAt(heap, 1, key_index)
    /\ \E i \in 4..5 : arr[i] \in Range(heap)
    /\ \E i \in 4..5 : arr[i] \notin Range(heap)

-----------------------------------------------------------------------------
(* data_cleaner.py : the strings of the model and Python's conversions     *)

\* floats read from text are carried in units of 1/FloatUnit: the four
\* decimals of the bounding box of lines 38-39
FloatUnit == 10000

\* float(s) in units of 1/FloatUnit, for the strings float() accepts
float_table ==
    (  "-73.9822" :> -739822
    @@ "40.7679" :> 407679
    @@ "-73.9646" :> -739646
    @@ "40.7656" :> 407656
    @@ "40.9176" :> 409176
    @@ "40.9177" :> 409177
    @@ "455" :> 4550000
    @@ "3600" :> 36000000
    @@ "3601" :> 36010000
    @@ "455.0" :> 4550000
    @@ "1830" :> 18300000
    @@ "60" :> 600000
    @@ "5e-324" :> 0
    @@ "-73.9442" :> -739442
    @@ "40.6782" :> 406782
    @@ "-73.7949" :> -737949
    @@ "40.7282" :> 407282
    @@ "0.000" :> 0
    @@ "1.504" :> 15040
    @@ "13.759" :> 137590
    @@ "16.966" :> 169660
    @@ "0.00" :> 0
    @@ "11.90" :> 119000
    @@ "16.97" :> 169700
    @@ "27.07" :> 270700
    @@ "90.24" :> 902400
    @@ "0" :> 0
    @@ "1" :> 10000
    @@ "2" :> 20000
    @@ "8" :> 80000
    @@ " 2" :> 20000
    @@ "29.8" :> 298000
    @@ "42.4" :> 424000)

\* int(s), for the strings int() accepts
int_table ==
    (  "455" :> 455
    @@ "3600" :> 3600
    @@ "3601" :> 3601
    @@ "1830" :> 1830
    @@ "60" :> 60
    @@ "0" :> 0
    @@ "1" :> 1
    @@ "2" :> 2
    @@ "8" :> 8
    @@ "3" :> 3
    @@ "4" :> 4
    @@ "5" :> 5
    @@ "6" :> 6
    @@ "7" :> 7
    @@ "9" :> 9
    @@ "10" :> 10
    @@ "11" :> 11
    @@ "12" :> 12
    @@ "13" :> 13
    @@ "14" :> 14
    @@ "15" :> 15
    @@ "16" :> 16
    @@ "17" :> 17
    @@ "18" :> 18
    @@ "19" :> 19
    @@ "20" :> 20
    @@ "21" :> 21
    @@ "22" :> 22
    @@ "23" :> 23
    @@ " 2" :> 2)

\* datetime.strptime(s, '%Y-%m-%d %H:%M:%S') in seconds since
\* 2016-01-01 00:00:00, for the strings it accepts
strptime_table ==
    (  "2016-03-14 17:21:55" :> 6369715
    @@ "2016-03-14 17:22:55" :> 6369775
    @@ "2016-03-14 17:23:55" :> 6369835
    @@ "2016-03-14 17:24:55" :> 6369895
    @@ "2016-03-14 17:25:55" :> 6369955
    @@ "2016-03-14 17:26:55" :> 6370015
    @@ "2016-03-14 17:27:55" :> 6370075
    @@ "2016-03-14 17:32:30" :> 6370350
    @@ "2016-03-14 17:20:00" :> 6369600
    @@ "2016-03-12 08:15:00" :> 6164100
    @@ "2016-03-12 08:45:30" :> 6165930
    @@ "2016-03-15 23:05:00" :> 6476700
    @@ "2016-03-15 23:06:00" :> 6476760
    @@ "2016-03-14 00:00:00" :> 6307200
    @@ "2016-03-14 01:00:00" :> 6310800
    @@ "2016-03-14 02:00:00" :> 6314400
    @@ "2016-03-14 03:00:00" :> 6318000
    @@ "2016-03-14 04:00:00" :> 6321600
    @@ "2016-03-14 05:00:00" :> 6325200
    @@ "2016-03-14 06:00:00" :> 6328800
    @@ "2016-03-14 07:00:00" :> 6332400
    @@ "2016-03-14 08:00:00" :> 6336000
    @@ "2016-03-14 09:00:00" :> 6339600
    @@ "2016-03-14 10:00:00" :> 6343200
    @@ "2016-03-14 11:00:00" :> 6346800
    @@ "2016-03-14 12:00:00" :> 6350400
    @@ "2016-03-14 13:00:00" :> 6354000
    @@ "2016-03-14 14:00:00" :> 6357600
    @@ "2016-03-14 15:00:00" :> 6361200
    @@ "2016-03-14 16:00:00" :> 6364800
    @@ "2016-03-14 17:00:00" :> 6368400
    @@ "2016-03-14 18:00:00" :> 6372000
    @@ "2016-03-14 19:00:00" :> 6375600
    @@ "2016-03-14 20:00:00" :> 6379200
    @@ "2016-03-14 21:00:00" :> 6382800
    @@ "2016-03-14 22:00:00" :> 6386400
    @@ "2016-03-14 23:00:00" :> 6390000
    @@ "2016-03-15 00:00:00" :> 6393600
    @@ "2016-03-15 01:00:00" :> 6397200
    @@ "2016-03-15 02:00:00" :> 6400800
    @@ "2016-03-15 03:00:00" :> 6404400
    @@ "2016-03-15 04:00:00" :> 6408000
    @@ "2016-03-15 05:00:00" :> 6411600
    @@ "2016-03-15 06:00:00" :> 6415200
    @@ "2016-03-15 07:00:00" :> 6418800
    @@ "2016-03-15 08:00:00" :> 6422400
    @@ "2016-03-15 09:00:00" :> 6426000
    @@ "2016-03-15 10:00:00" :> 6429600
    @@ "2016-03-15 11:00:00" :> 6433200
    @@ "2016-03-15 12:00:00" :> 6436800
    @@ "2016-03-15 13:00:00" :> 6440400
    @@ "2016-03-15 14:00:00" :> 6444000
    @@ "2016-03-15 15:00:00" :> 6447600
    @@ "2016-03-15 16:00:00" :> 6451200
    @@ "2016-03-15 17:00:00" :> 6454800
    @@ "2016-03-15 18:00:00" :> 6458400
    @@ "2016-03-15 19:00:00" :> 6462000
    @@ "2016-03-15 20:00:00" :> 6465600
    @@ "2016-03-15 21:00:00" :> 6469200
    @@ "2016-03-15 22:00:00" :> 6472800
    @@ "2016-03-15 23:00:00" :> 6476400
    @@ "2016-03-16 00:00:00" :> 6480000
    @@ "2016-03-16 01:00:00" :> 6483600
    @@ "2016-03-16 02:00:00" :> 6487200
    @@ "2016-03-16 03:00:00" :> 6490800
    @@ "2016-03-16 04:00:00" :> 6494400
    @@ "2016-03-16 05:00:00" :> 6498000
    @@ "2016-03-16 06:00:00" :> 6501600
    @@ "2016-03-16 07:00:00" :> 6505200
    @@ "2016-03-16 08:00:00" :> 6508800
    @@ "2016-03-16 09:00:00" :> 6512400
    @@ "2016-03-16 10:00:00" :> 6516000
    @@ "2016-03-16 11:00:00" :> 6519600
    @@ "2016-03-16 12:00:00" :> 6523200
    @@ "2016-03-16 13:00:00" :> 6526800
    @@ "2016-03-16 14:00:00" :> 6530400
    @@ "2016-03-16 15:00:00" :> 6534000
    @@ "2016-03-16 16:00:00" :> 6537600
    @@ "2016-03-16 17:00:00" :> 6541200
    @@ "2016-03-16 18:00:00" :> 6544800
    @@ "2016-03-16 19:00:00" :> 6548400
    @@ "2016-03-16 20:00:00" :> 6552000
    @@ "2016-03-16 21:00:00" :> 6555600
    @@ "2016-03-16 22:00:00" :> 6559200
    @@ "2016-03-16 23:00:00" :> 6562800
    @@ "2016-03-17 00:00:00" :> 6566400
    @@ "2016-03-17 01:00:00" :> 6570000
    @@ "2016-03-17 02:00:00" :> 6573600
    @@ "2016-03-17 03:00:00" :> 6577200
    @@ "2016-03-17 04:00:00" :> 6580800
    @@ "2016-03-17 05:00:00" :> 6584400
    @@ "2016-03-17 06:00:00" :> 6588000
    @@ "2016-03-17 07:00:00" :> 6591600
    @@ "2016-03-17 08:00:00" :> 6595200
    @@ "2016-03-17 09:00:00" :> 6598800
    @@ "2016-03-17 10:00:00" :> 6602400
    @@ "2016-03-17 11:00:00" :> 6606000
    @@ "2016-03-17 12:00:00" :> 6609600
    @@ "2016-03-17 13:00:00" :> 6613200
    @@ "2016-03-17 14:00:00" :> 6616800
    @@ "2016-03-17 15:00:00" :> 6620400
    @@ "2016-03-17 16:00:00" :> 6624000
    @@ "2016-03-17 17:00:00" :> 6627600
    @@ "2016-03-17 18:00:00" :> 6631200
    @@ "2016-03-17 19:00:00" :> 6634800
    @@ "2016-03-17 20:00:00" :> 6638400
    @@ "2016-03-17 21:00:00" :> 6642000
    @@ "2016-03-17 22:00:00" :> 6645600
    @@ "2016-03-17 23:00:00" :> 6649200
    @@ "2016-03-18 00:00:00" :> 6652800
    @@ "2016-03-18 01:00:00" :> 6656400
    @@ "2016-03-18 02:00:00" :> 6660000
    @@ "2016-03-18 03:00:00" :> 6663600
    @@ "2016-03-18 04:00:00" :> 6667200
    @@ "2016-03-18 05:00:00" :> 6670800
    @@ "2016-03-18 06:00:00" :> 6674400
    @@ "2016-03-18 07:00:00" :> 6678000
    @@ "2016-03-18 08:00:00" :> 6681600
    @@ "2016-03-18 09:00:00" :> 6685200
    @@ "2016-03-18 10:00:00" :> 6688800
    @@ "2016-03-18 11:00:00" :> 6692400
    @@ "2016-03-18 12:00:00" :> 6696000
    @@ "2016-03-18 13:00:00" :> 6699600
    @@ "2016-03-18 14:00:00" :> 6703200
    @@ "2016-03-18 15:00:00" :> 6706800
    @@ "2016-03-18 16:00:00" :> 6710400
    @@ "2016-03-18 17:00:00" :> 6714000
    @@ "2016-03-18 18:00:00" :> 6717600
    @@ "2016-03-18 19:00:00" :> 6721200
    @@ "2016-03-18 20:00:00" :> 6724800
    @@ "2016-03-18 21:00:00" :> 6728400
    @@ "2016-03-18 22:00:00" :> 6732000
    @@ "2016-03-18 23:00:00" :> 6735600
    @@ "2016-03-19 00:00:00" :> 6739200
    @@ "2016-03-19 01:00:00" :> 6742800
    @@ "2016-03-19 02:00:00" :> 6746400
    @@ "2016-03-19 03:00:00" :> 6750000
    @@ "2016-03-19 04:00:00" :> 6753600
    @@ "2016-03-19 05:00:00" :> 6757200
    @@ "2016-03-19 06:00:00" :> 6760800
    @@ "2016-03-19 07:00:00" :> 6764400
    @@ "2016-03-19 08:00:00" :> 6768000
    @@ "2016-03-19 09:00:00" :> 6771600
    @@ "2016-03-19 10:00:00" :> 6775200
    @@ "2016-03-19 11:00:00" :> 6778800
    @@ "2016-03-19 12:00:00" :> 6782400
    @@ "2016-03-19 13:00:00" :> 6786000
    @@ "2016-03-19 14:00:00" :> 6789600
    @@ "2016-03-19 15:00:00" :> 6793200
    @@ "2016-03-19 16:00:00" :> 6796800
    @@ "2016-03-19 17:00:00" :> 6800400
    @@ "2016-03-19 18:00:00" :> 6804000
    @@ "2016-03-19 19:00:00" :> 6807600
    @@ "2016-03-19 20:00:00" :> 6811200
    @@ "2016-03-19 21:00:00" :> 6814800
    @@ "2016-03-19 22:00:00" :> 6818400
    @@ "2016-03-19 23:00:00" :> 6822000
    @@ "2016-03-20 00:00:00" :> 6825600
    @@ "2016-03-20 01:00:00" :> 6829200
    @@ "2016-03-20 02:00:00" :> 6832800
    @@ "2016-03-20 03:00:00" :> 6836400
    @@ "2016-03-20 04:00:00" :> 6840000
    @@ "2016-03-20 05:00:00" :> 6843600
    @@ "2016-03-20 06:00:00" :> 6847200
    @@ "2016-03-20 07:00:00" :> 6850800
    @@ "2016-03-20 08:00:00" :> 6854400
    @@ "2016-03-20 09:00:00" :> 6858000
    @@ "2016-03-20 10:00:00" :> 6861600
    @@ "2016-03-20 11:00:00" :> 6865200
    @@ "2016-03-20 12:00:00" :> 6868800
    @@ "2016-03-20 13:00:00" :> 6872400
    @@ "2016-03-20 14:00:00" :> 6876000
    @@ "2016-03-20 15:00:00" :> 6879600
    @@ "2016-03-20 16:00:00" :> 6883200
    @@ "2016-03-20 17:00:00" :> 6886800
    @@ "2016-03-20 18:00:00" :> 6890400
    @@ "2016-03-20 19:00:00" :> 6894000
    @@ "2016-03-20 20:00:00" :> 6897600
    @@ "2016-03-20 21:00:00" :> 6901200
    @@ "2016-03-20 22:00:00" :> 6904800
    @@ "2016-03-20 23:00:00" :> 6908400)

\* the strings whose float is positive and so small that its quotient by
\* 3600.0 is 0.0; float_table gives them the value 0
float_underflow == {"5e-324"}

\* str(n) of an int
Digit(d) == <<"0", "1", "2", "3", "4", "5", "6", "7", "8", "9">>[d + 1]

RECURSIVE Str(_)
Str(n) ==
    IF n < 0 THEN "-" \o Str(-n)
    ELSE IF n < 10 THEN Digit(n)
    ELSE Str(n \div 10) \o Digit(n % 10)

\* s.strip(), for the strings it changes
strip_table ==
    (  " 2" :> "2")


\* sep.join(fields)
RECURSIVE JoinWith(_, _)
JoinWith(fields, sep) ==
    IF Len(fields) = 0 THEN ""
    ELSE IF Len(fields) = 1 THEN fields[1]
    ELSE fields[1] \o sep \o JoinWith(Tail(fields), sep)

\* '|'.join(fields)
Join(fields) == JoinWith(fields, "|")

\* value.strip()
Strip(s) == IF s \in DOMAIN strip_table THEN strip_table[s] ELSE s

\* record.get(field, default) and record[field] = value on a dict
Get(record, field, default) ==
    IF field \in DOMAIN record THEN record[field] ELSE default

SetField(record, field, value) ==
    [f \in DOMAIN record \cup {field} |->
        IF f = field THEN value ELSE record[f]]

\* float(record.get(field, 0)): float(0) is 0.0, float of a string may raise
\* ValueError
FieldFloatOk(record, field) ==
    field \notin DOMAIN record \/ record[field] \in DOMAIN float_table

FieldFloat(record, field) ==
    IF field \in DOMAIN record THEN float_table[record[field]] ELSE 0

\* int(record.get(field, default)) with an int default
FieldIntOk(record, field) ==
    field \notin DOMAIN record \/ record[field] \in DOMAIN int_table

FieldInt(record, field, default) ==
    IF field \in DOMAIN record THEN int_table[record[field]] ELSE default

-----------------------------------------------------------------------------
(* The input file: a header and rows of text                               *)

Columns ==
    <<"id", "vendor_id", "pickup_datetime", "dropoff_datetime",
      "passenger_count", "pickup_longitude", "pickup_latitude",
      "dropoff_longitude", "dropoff_latitude", "store_and_fwd_flag",
      "trip_duration">>

\* an ordinary trip; the other rows of the model change a few of its fields
Trip1 ==
    [id |-> "id1", vendor_id |-> "2",
     pickup_datetime |-> "2016-03-14 17:24:55",
     dropoff_datetime |-> "2016-03-14 17:32:30",
     passenger_count |-> "1",
     pickup_longitude |-> "-73.9822", pickup_latitude |-> "40.7679",
     dropoff_longitude |-> "-73.9646", dropoff_latitude |-> "40.7656",
     store_and_fwd_flag |-> "N", trip_duration |-> "455"]

Trip2 == [Trip1 EXCEPT !.id = "id2", !.pickup_datetime = "2016-03-14 17:25:55"]
Trip3 == [Trip1 EXCEPT !.pickup_datetime = "2016-03-14 17:26:55"]

\* the way back: pickup and dropoff places exchanged
Return(trip) ==
    [trip EXCEPT !.pickup_longitude = trip.dropoff_longitude,
                 !.pickup_latitude = trip.dropoff_latitude,
                 !.dropoff_longitude = trip.pickup_longitude,
                 !.dropoff_latitude = trip.pickup_latitude]

\* valid, with every checked field on a limit: 3600 s, 8 passengers, the
\* northern edge of the box; its vendor id is padded with a blank
LongTrip ==
    [Trip1 EXCEPT !.pickup_datetime = "2016-03-14 17:21:55",
                  !.trip_duration = "3600", !.passenger_count = "8",
                  !.pickup_latitude = "40.9176", !.vendor_id = " 2"]

\* the five key fields of Trip1, another id, and a dropoff outside the box
SameKeyTrip == [Trip1 EXCEPT !.id = "id2", !.dropoff_latitude = "40.9177"]

OutOfBox ==
    [Trip1 EXCEPT !.pickup_datetime = "2016-03-14 17:22:55",
                  !.pickup_latitude = "40.9177"]

Inverted ==
    [Trip1 EXCEPT !.pickup_datetime = "2016-03-14 17:23:55",
                  !.dropoff_datetime = "2016-03-14 17:20:00"]

BadFormat == [Trip1 EXCEPT !.pickup_datetime = "14/03/2016 17:24"]

OverLimit == [Trip1 EXCEPT !.trip_duration = "3601"]

FloatDuration == [Trip1 EXCEPT !.trip_duration = "455.0"]

\* valid once its two empty fields are defaulted
Blank ==
    [Trip1 EXCEPT !.pickup_datetime = "2016-03-14 17:27:55",
                  !.passenger_count = "", !.vendor_id = ""]

ZeroPassengers == [Return(Trip3) EXCEPT !.passenger_count = "0"]

\* two rows that differ in pickup_longitude and pickup_latitude and whose
\* fields hold the character the key is joined with
Pipe1 ==
    [Trip1 EXCEPT !.pickup_longitude = "-73.9822|40.7679",
                  !.pickup_latitude = ""]
Pipe2 ==
    [Trip1 EXCEPT !.id = "id2", !.pickup_longitude = "-73.9822",
                  !.pickup_latitude = "40.7679|"]

\* a row with fewer fields than the header has columns
Truncated == [id |-> "id1", vendor_id |-> "2"]

RowPool ==
    {Trip1, LongTrip, SameKeyTrip, OutOfBox, Inverted, BadFormat, OverLimit,
     FloatDuration, Blank, ZeroPassengers, Pipe1, Pipe2, Truncated}

\* the 12 rows of section 8: 7 valid trips, 2 exact duplicates, 1 pickup out
\* of the box, 1 dropoff before pickup, 1 duration over the limit
TwelveRows ==
    <<Trip1, Trip2, Trip1, Trip3, OutOfBox, LongTrip, Inverted, Blank, Trip2,
      OverLimit, Return(Trip1), Return(Trip2)>>

\* the text of a row under a header: the fields the row has, in header order
RowText(row, header) ==
    LET present == SelectSeq(header, LAMBDA c : c \in DOMAIN row)
    IN  [i \in 1..Len(present) |-> row[present[i]]]

CsvFile(header, rows) ==
    [exists |-> TRUE, header |-> header,
     rows |-> [i \in 1..Len(rows) |-> RowText(rows[i], header)]]

Without(header, column) == SelectSeq(header, LAMBDA c : c # column)

\* rows a file may hold: none or three ordinary trips, then up to MaxRows
\* rows of the pool
MaxRows == 3

RowLists ==
    {prefix \o tail : prefix \in {<<>>, <<Trip1, Trip2, Trip3>>},
                      tail \in SeqsUpTo(RowPool, MaxRows)}

\* files without the passenger_count column, or without a timestamp column
ReducedHeaders ==
    {Without(Columns, "passenger_count"), Without(Columns, "pickup_datetime"),
     Without(Columns, "dropoff_datetime")}

\* a row of a file that has a column outlier_flag of its own
AlreadyFlagged == SetField(Trip1, "outlier_flag", "DURATION_OUTLIER")

InputFiles ==
    {CsvFile(Columns, rows) : rows \in RowLists \cup {TwelveRows}}
    \cup {CsvFile(Append(Columns, "outlier_flag"), <<AlreadyFlagged>>)}
    \cup {CsvFile(Without(Columns, "dropoff_datetime"), <<BadFormat, Trip1>>)}
    \cup {CsvFile(header, prefix \o tail) :
             header \in ReducedHeaders,
             prefix \in {<<>>, <<Trip1, Trip2, Trip3>>},
             tail \in SeqsUpTo(RowPool, 1)}

\* a file that is there and that the reader fails on before it has a
\* header: it has no first line (next(reader) raises StopIteration) or its
\* first bytes are not UTF-8 (UnicodeDecodeError)
UnreadableFile == [exists |-> TRUE, header |-> <<>>, rows |-> <<>>]

\* lines 111-116: open() raises FileNotFoundError, or the reading raises
\* another Exception
read_fails(file) == ~file.exists \/ file = UnreadableFile

-----------------------------------------------------------------------------
(* data_cleaner.py : TaxiDataCleaner                                       *)
(*                                                                         *)
(* The records are Python dicts that the stages change in place and pass   *)
(* on by reference: raw_data holds the dicts in the order read, and        *)
(* cleaned_data holds the working list as positions (from 1) in raw_data.  *)

\* self.stats of __init__
ZeroStats ==
    [total_records |-> 0, valid_records |-> 0, invalid_records |-> 0,
     duplicates_removed |-> 0, missing_values_fixed |-> 0,
     outliers_detected |-> 0, coordinate_errors |-> 0, datetime_errors |-> 0,
     duration_errors |-> 0]

\* self.nyc_bounds, in units of 1/FloatUnit
min_lat == 404774
max_lat == 409176
min_lon == -742591
max_lon == -737004

\* self.trip_constraints
min_duration == 60
max_duration == 3600
max_passenger == 8

\* _detect_outliers: len(durations) > 100000, min(50000, ...), multiplier=2.0
\* (the multiplier in hundredths)
LargeDataset == 100000
SampleSize == 50000
OutlierMultiplier == 200

\* lines 95-101: the dict of a row
MakeRecord(header, row, row_num) ==
    [c \in Range(header) \cup {"row_number"} |->
        IF c = "row_number" THEN row_num
        ELSE Strip(row[CHOOSE i \in 1..Len(header) : header[i] = c])]

\* lines 85-104: the rows as long as the header, numbered from 2
_read_csv_data(file) ==
    LET header == [i \in 1..Len(file.header) |-> Strip(file.header[i])]
        well_formed == SelectSeq([i \in 1..Len(file.rows) |-> i],
                           LAMBDA i : ~(Len(file.rows[i]) # Len(header)))
    IN  [j \in 1..Len(well_formed) |->
            MakeRecord(header, file.rows[well_formed[j]], well_formed[j] + 1)]

\* lines 128-136
key_fields(record) ==
    <<Get(record, "pickup_datetime", ""), Get(record, "dropoff_datetime", ""),
      Get(record, "pickup_longitude", ""), Get(record, "pickup_latitude", ""),
      Get(record, "trip_duration", "")>>

unique_key(record) == Join(key_fields(record))

\* lines 126-142: the loop from position i of refs on, given the keys seen
\* and the list built so far; returns the references kept
RECURSIVE remove_duplicates_loop(_, _, _, _, _)
remove_duplicates_loop(objs, refs, i, seen_records, unique_data) ==
    IF i > Len(refs) THEN unique_data
    ELSE LET key == unique_key(objs[refs[i]])
         IN  IF key \notin seen_records
             THEN remove_duplicates_loop(objs, refs, i + 1,
                      seen_records \cup {key}, Append(unique_data, refs[i]))
             ELSE remove_duplicates_loop(objs, refs, i + 1,
                      seen_records, unique_data)

_remove_duplicates(objs, refs) ==
    remove_duplicates_loop(objs, refs, 1, {}, <<>>)

\* `not record.get(field) or record[field] == ''`
IsMissing(record, field) ==
    field \notin DOMAIN record \/ record[field] = ""

\* lines 152-167 on one dict
fix_record(record) ==
    LET r1 == IF IsMissing(record, "passenger_count")
              THEN SetField(record, "passenger_count", "1") ELSE record
        r2 == IF IsMissing(r1, "store_and_fwd_flag")
              THEN SetField(r1, "store_and_fwd_flag", "N") ELSE r1
    IN  IF IsMissing(r2, "vendor_id")
        THEN SetField(r2, "vendor_id", "1") ELSE r2

\* the variable `fixed` of line 152 at line 169
was_fixed(record) ==
    \/ IsMissing(record, "passenger_count")
    \/ IsMissing(record, "store_and_fwd_flag")
    \/ IsMissing(record, "vendor_id")

InBox(lat, lon) ==
    /\ min_lat <= lat /\ lat <= max_lat
    /\ min_lon <= lon /\ lon <= max_lon

\* a box test that leaves the dropoff out
coordinates_valid_pickup_only(record) ==
    /\ FieldFloatOk(record, "pickup_longitude")
    /\ FieldFloatOk(record, "pickup_latitude")
    /\ FieldFloatOk(record, "dropoff_longitude")
    /\ FieldFloatOk(record, "dropoff_latitude")
    /\ InBox(FieldFloat(record, "pickup_latitude"),
             FieldFloat(record, "pickup_longitude"))

\* lines 182-203: no ValueError and both points in the box
coordinates_valid(record) ==
    /\ FieldFloatOk(record, "pickup_longitude")
    /\ FieldFloatOk(record, "pickup_latitude")
    /\ FieldFloatOk(record, "dropoff_longitude")
    /\ FieldFloatOk(record, "dropoff_latitude")
    /\ InBox(FieldFloat(record, "pickup_latitude"),
             FieldFloat(record, "pickup_longitude"))
    /\ InBox(FieldFloat(record, "dropoff_latitude"),
             FieldFloat(record, "dropoff_longitude"))

\* lines 216-217 raise KeyError: record['pickup_datetime'] is read first, and
\* record['dropoff_datetime'] only once the pickup time has parsed (a pickup
\* time that does not parse raises ValueError at line 216, which line 229
\* catches)
datetime_key_error(record) ==
    \/ "pickup_datetime" \notin DOMAIN record
    \/ /\ record.pickup_datetime \in DOMAIN strptime_table
       /\ "dropoff_datetime" \notin DOMAIN record

\* lines 216-231, for a record that raises no KeyError: both parse and
\* dropoff_dt > pickup_dt
datetime_valid(record) ==
    /\ record.pickup_datetime \in DOMAIN strptime_table
    /\ "dropoff_datetime" \in DOMAIN record
    /\ record.dropoff_datetime \in DOMAIN strptime_table
    /\ strptime_table[record.dropoff_datetime]
         > strptime_table[record.pickup_datetime]

\* lines 222-223
actual_duration(record) ==
    strptime_table[record.dropoff_datetime]
        - strptime_table[record.pickup_datetime]

\* lines 244-262: no ValueError and both values in range
duration_valid(record) ==
    /\ FieldIntOk(record, "trip_duration")
    /\ FieldIntOk(record, "passenger_count")
    /\ min_duration <= FieldInt(record, "trip_duration", 0)
    /\ FieldInt(record, "trip_duration", 0) <= max_duration
    /\ 1 <= FieldInt(record, "passenger_count", 1)
    /\ FieldInt(record, "passenger_count", 1) <= max_passenger

\* lines 201-203 and 259-262: the dicts after a filtering stage, those of
\* the list that are not in valid_data carrying the flag
with_validity_flag(objs, refs, valid_data, flag) ==
    [i \in 1..Len(objs) |->
        IF i \in Range(refs) /\ i \notin Range(valid_data)
        THEN SetField(objs[i], "validity_flag", flag) ELSE objs[i]]

\* lines 272-278, in seconds: the float of a trip_duration that int()
\* accepted at line 244 is a whole number (WholeSeconds)
durations_of(objs, refs) ==
    [j \in 1..Len(refs) |->
        IF FieldFloatOk(objs[refs[j]], "trip_duration")
        THEN FieldFloat(objs[refs[j]], "trip_duration") \div FloatUnit
        ELSE 0]

\* random.sample(durations, sample_size): the lists it can return
Samples(durations) ==
    LET sample_size == Min(SampleSize, Len(durations))
    IN  {[j \in 1..sample_size |-> durations[pick[j]]] :
            pick \in {f \in [1..sample_size -> 1..Len(durations)] :
                         \A a, b \in 1..sample_size : a # b => f[a] # f[b]}}

\* lines 281-301: the set of Python indices flagged, the large branch using
\* the quartiles of the sample
outlier_indices_of(durations, sample) ==
    IF Len(durations) > LargeDataset
    THEN LET outlier_stats == detect_outliers_iqr(sample, OutlierMultiplier)[2]
             q1 == outlier_stats.q1
             q3 == outlier_stats.q3
             iqr == q3 - q1
             lower_bound == PctScale * q1 - OutlierMultiplier * iqr
             upper_bound == PctScale * q3 + OutlierMultiplier * iqr
         IN  {i \in 0..Len(durations) - 1 :
                 IsOutlier(At(durations, i), lower_bound, upper_bound)}
    ELSE Range(detect_outliers_iqr(durations, OutlierMultiplier)[1])

\* a marking loop that gives no flag to the records it finds normal
flag_outliers_only(objs, refs, outlier_indices) ==
    [i \in 1..Len(objs) |->
        IF \E j \in 1..Len(refs) : refs[j] = i /\ (j - 1) \in outlier_indices
        THEN SetField(objs[i], "outlier_flag", "DURATION_OUTLIER")
        ELSE objs[i]]

\* lines 304-310: the dicts after the marking loop
flag_outliers(objs, refs, outlier_indices) ==
    [i \in 1..Len(objs) |->
        IF \E j \in 1..Len(refs) : refs[j] = i /\ (j - 1) \in outlier_indices
        THEN SetField(objs[i], "outlier_flag", "DURATION_OUTLIER")
        ELSE IF i \in Range(refs)
        THEN SetField(objs[i], "outlier_flag", "NORMAL")
        ELSE objs[i]]

\* lines 326-331
output_columns ==
    <<"id", "vendor_id", "pickup_datetime", "dropoff_datetime",
      "passenger_count", "pickup_longitude", "pickup_latitude",
      "dropoff_longitude", "dropoff_latitude", "store_and_fwd_flag",
      "trip_duration", "calculated_duration", "outlier_flag">>

\* lines 341-345
output_row(record) ==
    [c \in 1..Len(output_columns) |-> Get(record, output_columns[c], "")]

-----------------------------------------------------------------------------
(* Specification Spec: one TaxiDataCleaner, constructed on a file, running *)
(* clean_dataset once                                                      *)

\* a counter that counts the stages that rejected something, not the records
BumpOnce(st, counter, n) ==
    [st EXCEPT ![counter] = @ + (IF n > 0 THEN 1 ELSE 0)]

\* self.stats[counter] += 1, n times
Bump(st, counter, n) == [st EXCEPT ![counter] = @ + n]

Init ==
    /\ NoGroupArgs /\ NoPoints /\ NoDatabase
    /\ pc = "constructed"
    /\ raised = "None"
    /\ input_file \in InputFiles \cup {NoFile, UnreadableFile}
    /\ raw_data = <<>>
    /\ cleaned_data = <<>>
    /\ stats = ZeroStats
    /\ output_file = NoFile
    /\ report_file = NoReport
    /\ NoSortArgs /\ NoValueArgs /\ NoHeap
    /\ result = <<>>

\* line 58 and _read_csv_data, with the failure swallowed: the empty list
\* is returned
ReadCsvDataOrNothing ==
    /\ pc = "constructed"
    /\ IF read_fails(input_file)
       THEN /\ raw_data' = <<>>
            /\ cleaned_data' = <<>>
            /\ pc' = "read"
            /\ UNCHANGED <<raised, stats>>
       ELSE /\ raw_data' = _read_csv_data(input_file)
            /\ cleaned_data' = [i \in 1..Len(raw_data') |-> i]
            /\ stats' = Bump(stats, "total_records", Len(raw_data'))
            /\ pc' = "read"
            /\ UNCHANGED raised
    /\ UNCHANGED <<input_file, output_file, report_file, libVars>>

\* line 58 and _read_csv_data; a file that cannot be opened or read ends
\* the process (sys.exit(1))
ReadCsvData ==
    /\ pc = "constructed"
    /\ IF read_fails(input_file)
       THEN /\ raised' = "SystemExit"
            /\ pc' = "exited"
            /\ UNCHANGED <<raw_data, cleaned_data, stats>>
       ELSE /\ raw_data' = _read_csv_data(input_file)
            /\ cleaned_data' = [i \in 1..Len(raw_data') |-> i]
            /\ stats' = Bump(stats, "total_records", Len(raw_data'))
            /\ pc' = "read"
            /\ UNCHANGED raised
    /\ UNCHANGED <<input_file, output_file, report_file, libVars>>

\* line 62
RemoveDuplicates ==
    /\ pc = "read"
    /\ cleaned_data' = _remove_duplicates(raw_data, cleaned_data)
    /\ stats' = Bump(stats, "duplicates_removed",
                     Len(cleaned_data) - Len(cleaned_data'))
    /\ pc' = "deduplicated"
    /\ UNCHANGED <<raised, input_file, raw_data, output_file, report_file,
                   libVars>>

\* line 63
FixMissingValues ==
    /\ pc = "deduplicated"
    /\ raw_data' = [i \in 1..Len(raw_data) |->
                       IF i \in Range(cleaned_data)
                       THEN fix_record(raw_data[i]) ELSE raw_data[i]]
    /\ stats' = Bump(stats, "missing_values_fixed",
                     Cardinality({i \in Range(cleaned_data) :
                                     was_fixed(raw_data[i])}))
    /\ pc' = "fixed"
    /\ UNCHANGED <<raised, input_file, cleaned_data, output_file, report_file,
                   libVars>>

\* line 64
ValidateCoordinates ==
    /\ pc = "fixed"
    /\ cleaned_data' = SelectSeq(cleaned_data,
                                 LAMBDA i : coordinates_valid(raw_data[i]))
    /\ raw_data' = with_validity_flag(raw_data, cleaned_data, cleaned_data',
                                      "INVALID_COORDINATES")
    /\ stats' = Bump(stats, "coordinate_errors",
                     Len(cleaned_data) - Len(cleaned_data'))
    /\ pc' = "coordinates_checked"
    /\ UNCHANGED <<raised, input_file, output_file, report_file, libVars>>

\* line 65; KeyError is not among the exceptions _validate_datetime catches:
\* the loop stops at the first dict of the list that raises it, the dicts
\* before it having been marked and counted, and the list clean_dataset()
\* holds is not replaced
ValidateDatetime ==
    /\ pc = "coordinates_checked"
    /\ LET raising == {j \in 1..Len(cleaned_data) :
                          datetime_key_error(raw_data[cleaned_data[j]])}
           reached == IF raising = {} THEN cleaned_data
                      ELSE SubSeq(cleaned_data, 1,
                               (CHOOSE j \in raising :
                                    \A other \in raising : j <= other) - 1)
       IN  /\ raw_data' =
                [i \in 1..Len(raw_data) |->
                   IF i \notin Range(reached) THEN raw_data[i]
                   ELSE IF datetime_valid(raw_data[i])
                   THEN SetField(raw_data[i], "calculated_duration",
                                 Str(actual_duration(raw_data[i])))
                   ELSE SetField(raw_data[i], "validity_flag",
                                 "INVALID_DATETIME")]
           /\ stats' = Bump(stats, "datetime_errors",
                            Cardinality({i \in Range(reached) :
                                            ~datetime_valid(raw_data[i])}))
           /\ IF raising = {}
              THEN /\ cleaned_data' =
                        SelectSeq(cleaned_data,
                                  LAMBDA i : datetime_valid(raw_data[i]))
                   /\ pc' = "datetime_checked"
                   /\ UNCHANGED raised
              ELSE /\ raised' = "KeyError"
                   /\ pc' = "raised"
                   /\ UNCHANGED cleaned_data
    /\ UNCHANGED <<input_file, output_file, report_file, libVars>>

\* line 66
ValidateTripDuration ==
    /\ pc = "datetime_checked"
    /\ cleaned_data' = SelectSeq(cleaned_data,
                                 LAMBDA i : duration_valid(raw_data[i]))
    /\ raw_data' = with_validity_flag(raw_data, cleaned_data, cleaned_data',
                                      "INVALID_DURATION_OR_PASSENGERS")
    /\ stats' = Bump(stats, "duration_errors",
                     Len(cleaned_data) - Len(cleaned_data'))
    /\ pc' = "duration_checked"
    /\ UNCHANGED <<raised, input_file, output_file, report_file, libVars>>

\* line 67
DetectOutliers ==
    /\ pc = "duration_checked"
    /\ LET durations == durations_of(raw_data, cleaned_data)
       IN  \E sample \in (IF Len(durations) > LargeDataset
                          THEN Samples(durations) ELSE {durations}) :
             LET outlier_indices == outlier_indices_of(durations, sample)
             IN  /\ raw_data' = flag_outliers(raw_data, cleaned_data,
                                               outlier_indices)
                 /\ stats' = Bump(stats, "outliers_detected",
                                  Cardinality({j \in 1..Len(cleaned_data) :
                                                 (j - 1) \in outlier_indices}))
    /\ pc' = "outliers_flagged"
    /\ UNCHANGED <<raised, input_file, cleaned_data, output_file, report_file,
                   libVars>>

\* line 70; nothing is written, and valid_records and invalid_records are
\* not set, when no record is left
WriteCleanedData ==
    /\ pc = "outliers_flagged"
    /\ IF Len(cleaned_data) = 0
       THEN UNCHANGED <<output_file, stats>>
       ELSE /\ output_file' =
                 [exists |-> TRUE, header |-> output_columns,
                  rows |-> [j \in 1..Len(cleaned_data) |->
                               output_row(raw_data[cleaned_data[j]])]]
            /\ stats' = [stats EXCEPT
                           !.valid_records = Len(cleaned_data),
                           !.invalid_records =
                               stats.total_records - Len(cleaned_data)]
    /\ pc' = "written"
    /\ UNCHANGED <<raised, input_file, raw_data, cleaned_data, report_file,
                   libVars>>

\* lines 73-75
GenerateCleaningReport ==
    /\ pc = "written"
    /\ report_file' = [exists |-> TRUE, stats |-> stats]
    /\ pc' = "done"
    /\ UNCHANGED <<raised, input_file, raw_data, cleaned_data, stats,
                   output_file, libVars>>

Next ==
    \/ ReadCsvData
    \/ RemoveDuplicates
    \/ FixMissingValues
    \/ ValidateCoordinates
    \/ ValidateDatetime
    \/ ValidateTripDuration
    \/ DetectOutliers
    \/ WriteCleanedData
    \/ GenerateCleaningReport

Spec == Init /\ [][Next]_vars

\* the durations _detect_outliers reads are whole numbers of seconds
WholeSeconds ==
    pc = "duration_checked" =>
        \A i \in Range(cleaned_data) :
            /\ FieldFloatOk(raw_data[i], "trip_duration")
            /\ FieldFloat(raw_data[i], "trip_duration") % FloatUnit = 0

-----------------------------------------------------------------------------
(* The cleaning run, record by record                                      *)

\* the values the checks of the pipeline read, from the text of a record
LatLonInBox(record, lat_field, lon_field) ==
    /\ record[lat_field] \in DOMAIN float_table
    /\ record[lon_field] \in DOMAIN float_table
    /\ float_table[record[lat_field]] >= 404774
    /\ float_table[record[lat_field]] <= 409176
    /\ float_table[record[lon_field]] >= -742591
    /\ float_table[record[lon_field]] <= -737004

PassesCoordinates(record) ==
    /\ LatLonInBox(record, "pickup_latitude", "pickup_longitude")
    /\ LatLonInBox(record, "dropoff_latitude", "dropoff_longitude")

PassesDatetime(record) ==
    /\ record.pickup_datetime \in DOMAIN strptime_table
    /\ record.dropoff_datetime \in DOMAIN strptime_table
    /\ strptime_table[record.pickup_datetime]
         < strptime_table[record.dropoff_datetime]

PassesDuration(record) ==
    /\ record.trip_duration \in DOMAIN int_table
    /\ record.passenger_count \in DOMAIN int_table
    /\ int_table[record.trip_duration] \in 60..3600
    /\ int_table[record.passenger_count] \in 1..8

\* the records read that repeat the joined key of an earlier record
RepeatsEarlierKey(i) ==
    \E h \in 1..(i - 1) : unique_key(raw_data[h]) = unique_key(raw_data[i])

\* the stage that rejects record i of the file, "none" for a survivor
RejectedBy(i) ==
    IF RepeatsEarlierKey(i) THEN "dedup"
    ELSE IF ~PassesCoordinates(raw_data[i]) THEN "coordinates"
    ELSE IF ~PassesDatetime(raw_data[i]) THEN "datetime"
    ELSE IF ~PassesDuration(raw_data[i]) THEN "duration"
    ELSE "none"

NumberRejectedBy(stage) ==
    Cardinality({i \in 1..Len(raw_data) : RejectedBy(i) = stage})

\* C1: after a completed clean_dataset the number of survivors is
\* total_records - duplicates_removed - coordinate_errors - datetime_errors
\* - duration_errors; every removed record is counted once, in the counter of
\* the first stage (dedup, coordinates, datetime, duration/passengers) that
\* rejects it; the survivors are no more than the input records; and the 12
\* rows of section 8 leave 7 survivors and the counters 2/1/1/1.
C1_CountsAddUp ==
    pc = "done" =>
        /\ Len(cleaned_data) =
             stats.total_records - stats.duplicates_removed
               - stats.coordinate_errors - stats.datetime_errors
               - stats.duration_errors
        /\ stats.total_records = Len(raw_data)
        /\ stats.duplicates_removed = NumberRejectedBy("dedup")
        /\ stats.coordinate_errors = NumberRejectedBy("coordinates")
        /\ stats.datetime_errors = NumberRejectedBy("datetime")
        /\ stats.duration_errors = NumberRejectedBy("duration")
        /\ Range(cleaned_data) =
             {i \in 1..Len(raw_data) : RejectedBy(i) = "none"}
        /\ Len(cleaned_data) <= Len(raw_data)
        /\ Len(raw_data) <= Len(input_file.rows)
        /\ (input_file = CsvFile(Columns, TwelveRows) =>
              /\ Len(cleaned_data) = 7
              /\ stats.duplicates_removed = 2
              /\ stats.coordinate_errors = 1
              /\ stats.datetime_errors = 1
              /\ stats.duration_errors = 1)

\* the run on the 12 rows is complete, and each of the four counters counted
C1_Witness ==
    /\ pc = "done"
    /\ input_file = CsvFile(Columns, TwelveRows)
    /\ Len(cleaned_data) = 7
    /\ stats.total_records = 12
    /\ stats.duplicates_removed = 2

\* C2: _detect_outliers removes no record: it returns the same records in the
\* same order and number, each of them then carries outlier_flag 'NORMAL' or
\* 'DURATION_OUTLIER', nothing else of a record changes, and
\* outliers_detected grows by the number of records flagged
\* 'DURATION_OUTLIER'.
C2_OutliersKept ==
    [][(pc = "duration_checked" /\ pc' = "outliers_flagged") =>
        /\ cleaned_data' = cleaned_data
        /\ Len(raw_data') = Len(raw_data)
        /\ \A i \in 1..Len(raw_data) :
              /\ \A f \in DOMAIN raw_data[i] \ {"outlier_flag"} :
                    /\ f \in DOMAIN raw_data'[i]
                    /\ raw_data'[i][f] = raw_data[i][f]
              /\ DOMAIN raw_data'[i] \subseteq
                    DOMAIN raw_data[i] \cup {"outlier_flag"}
        /\ \A i \in Range(cleaned_data) :
              /\ "outlier_flag" \in DOMAIN raw_data'[i]
              /\ raw_data'[i].outlier_flag \in {"NORMAL", "DURATION_OUTLIER"}
        /\ stats'.outliers_detected =
             stats.outliers_detected
               + Cardinality({j \in 1..Len(cleaned_data) :
                    raw_data'[cleaned_data[j]].outlier_flag
                        = "DURATION_OUTLIER"})
        /\ \A c \in DOMAIN stats \ {"outliers_detected"} :
              stats'[c] = stats[c]]_vars

\* a list in which one record was flagged as an outlier and others were not
C2_Witness ==
    /\ pc = "outliers_flagged"
    /\ stats.outliers_detected = 1
    /\ Len(cleaned_data) >= 4
    /\ \E i, j \in Range(cleaned_data) :
          /\ raw_data[i].outlier_flag = "DURATION_OUTLIER"
          /\ raw_data[j].outlier_flag = "NORMAL"

\* the distinct composite keys of the records read
DistinctKeys == {key_fields(raw_data[i]) : i \in 1..Len(raw_data)}

IsFirstOfKey(i) ==
    \A h \in 1..(i - 1) : key_fields(raw_data[h]) # key_fields(raw_data[i])

\* C9: _remove_duplicates returns one record per distinct composite key
\* (pickup_datetime, dropoff_datetime, pickup_longitude, pickup_latitude,
\* trip_duration), the first occurrence of the key, in input order, adds
\* (input length - number of distinct keys) to duplicates_removed, and never
\* merges two records whose five key fields differ in a field.
C9_Dedup ==
    pc = "deduplicated" =>
        /\ Len(cleaned_data) = Cardinality(DistinctKeys)
        /\ \A j \in 1..Len(cleaned_data) : IsFirstOfKey(cleaned_data[j])
        /\ \A j \in 1..(Len(cleaned_data) - 1) :
              cleaned_data[j] < cleaned_data[j + 1]
        /\ stats.duplicates_removed =
             Len(raw_data) - Cardinality(DistinctKeys)
        /\ \A i \in 1..Len(raw_data) :
              \E j \in 1..Len(cleaned_data) :
                  key_fields(raw_data[cleaned_data[j]]) = key_fields(raw_data[i])

\* what _remove_duplicates does keep apart: the records whose five key fields
\* joined with '|' give different texts
DedupByJoinedKey ==
    pc = "deduplicated" =>
        /\ Range(cleaned_data) =
             {i \in 1..Len(raw_data) : ~RepeatsEarlierKey(i)}
        /\ \A j \in 1..(Len(cleaned_data) - 1) :
              cleaned_data[j] < cleaned_data[j + 1]
        /\ stats.duplicates_removed = Len(raw_data) - Len(cleaned_data)

\* two records with different key fields and the same joined key were read,
\* and one of them is gone
JoinedKeyCollision ==
    /\ pc = "deduplicated"
    /\ \E i, j \in 1..Len(raw_data) :
          /\ key_fields(raw_data[i]) # key_fields(raw_data[j])
          /\ unique_key(raw_data[i]) = unique_key(raw_data[j])
          /\ i \in Range(cleaned_data)
          /\ j \notin Range(cleaned_data)

\* the records the pipeline hands on once the three checks have run
Emerged == pc \in {"duration_checked", "outliers_flagged", "written", "done"}

HasFlag(record, flag) ==
    "validity_flag" \in DOMAIN record /\ record.validity_flag = flag

\* C10: every record that emerges from the pipeline has pickup and dropoff
\* latitude in [40.4774, 40.9176] and longitude in [-74.2591, -73.7004],
\* dropoff strictly after pickup, trip_duration in [60, 3600] and
\* passenger_count in [1, 8]; every record rejected by the coordinate,
\* datetime or duration/passenger check is absent from the output and carries
\* validity_flag INVALID_COORDINATES, INVALID_DATETIME or
\* INVALID_DURATION_OR_PASSENGERS respectively.
C10_SurvivorsValid ==
    Emerged =>
        /\ \A i \in Range(cleaned_data) :
              /\ PassesCoordinates(raw_data[i])
              /\ PassesDatetime(raw_data[i])
              /\ PassesDuration(raw_data[i])
              /\ "validity_flag" \notin DOMAIN raw_data[i]
        /\ \A i \in 1..Len(raw_data) :
              /\ RejectedBy(i) = "coordinates" =>
                    /\ i \notin Range(cleaned_data)
                    /\ HasFlag(raw_data[i], "INVALID_COORDINATES")
              /\ RejectedBy(i) = "datetime" =>
                    /\ i \notin Range(cleaned_data)
                    /\ HasFlag(raw_data[i], "INVALID_DATETIME")
              /\ RejectedBy(i) = "duration" =>
                    /\ i \notin Range(cleaned_data)
                    /\ HasFlag(raw_data[i], "INVALID_DURATION_OR_PASSENGERS")
        /\ (pc \in {"written", "done"} /\ Len(cleaned_data) > 0 =>
              output_file.rows =
                 [j \in 1..Len(cleaned_data) |->
                     output_row(raw_data[cleaned_data[j]])])

\* a written output with survivors, one of them on the limits of the box, the
\* duration and the passenger count, and a record rejected by each check
C10_Witness ==
    /\ pc = "done"
    /\ output_file.exists
    /\ \E i \in Range(cleaned_data) :
          /\ raw_data[i].trip_duration = "3600"
          /\ raw_data[i].passenger_count = "8"
          /\ raw_data[i].pickup_latitude = "40.9176"
    /\ \E i \in 1..Len(raw_data) :
          HasFlag(raw_data[i], "INVALID_COORDINATES")
    /\ \E i \in 1..Len(raw_data) :
          HasFlag(raw_data[i], "INVALID_DATETIME")
    /\ \E i \in 1..Len(raw_data) :
          HasFlag(raw_data[i], "INVALID_DURATION_OR_PASSENGERS")

\* the timestamp of the field is there and has the format of line 216
TimestampParses(record, field) ==
    field \in DOMAIN record /\ record[field] \in DOMAIN strptime_table

\* outcome (i) of the datetime stage is due: both timestamps parse and the
\* dropoff is strictly after the pickup
DropoffAfterPickup(record) ==
    /\ TimestampParses(record, "pickup_datetime")
    /\ TimestampParses(record, "dropoff_datetime")
    /\ strptime_table[record.dropoff_datetime] > strptime_table[record.pickup_datetime]

ElapsedSeconds(record) ==
    strptime_table[record.dropoff_datetime] - strptime_table[record.pickup_datetime]

\* what the datetime stage does to the list it is given
DatetimeOutcomes ==
    /\ pc' = "datetime_checked"
    /\ raised' = "None"
    /\ cleaned_data' = SelectSeq(cleaned_data, LAMBDA i : DropoffAfterPickup(raw_data[i]))
    /\ \A i \in Range(cleaned_data) :
          IF DropoffAfterPickup(raw_data[i])
          THEN /\ "calculated_duration" \in DOMAIN raw_data'[i]
               /\ raw_data'[i].calculated_duration = Str(ElapsedSeconds(raw_data[i]))
               /\ ElapsedSeconds(raw_data[i]) > 0
               /\ ~HasFlag(raw_data'[i], "INVALID_DATETIME")
          ELSE /\ HasFlag(raw_data'[i], "INVALID_DATETIME")
               /\ i \notin Range(cleaned_data')
    /\ stats'.datetime_errors = stats.datetime_errors
          + Cardinality({j \in 1..Len(cleaned_data) :
                            ~DropoffAfterPickup(raw_data[cleaned_data[j]])})

\* C17: the datetime stage always runs over the whole list, and for every
\* record that reaches it exactly one of two things happens: both
\* timestamps parse and the dropoff is strictly after the pickup, and the
\* record stays and gains calculated_duration, the elapsed whole seconds
\* (> 0); or a timestamp is absent or unparsable or the dropoff is not after
\* the pickup, and the record is marked INVALID_DATETIME and removed and
\* datetime_errors grows by one
C17_Datetime ==
    [][pc = "coordinates_checked" => DatetimeOutcomes]_vars

\* the same for the files that have both timestamp columns
DatetimeWithColumns ==
    [][(/\ pc = "coordinates_checked"
        /\ {"pickup_datetime", "dropoff_datetime"} \subseteq Range(input_file.header))
            => DatetimeOutcomes]_vars

\* the stage has kept a record and removed one with an unparsable and one
\* with an inverted pair of timestamps
DatetimeBothOutcomes ==
    /\ pc = "datetime_checked"
    /\ \E i \in Range(cleaned_data) : "calculated_duration" \in DOMAIN raw_data[i]
    /\ \E i \in 1..Len(raw_data) :
          /\ HasFlag(raw_data[i], "INVALID_DATETIME")
          /\ ~TimestampParses(raw_data[i], "pickup_datetime")
    /\ stats.datetime_errors >= 2

\* the defaults of the missing-value stage
MissingDefaults ==
    [passenger_count |-> "1", store_and_fwd_flag |-> "N", vendor_id |-> "1"]

\* the fields of the record that are absent or empty and have a default
Substituted(record) ==
    {f \in DOMAIN MissingDefaults : f \notin DOMAIN record \/ record[f] = ""}

\* the stage keeps the list and replaces what is absent or empty and nothing
\* else
DefaultsFilledIn ==
    /\ pc' = "fixed"
    /\ cleaned_data' = cleaned_data
    /\ Len(raw_data') = Len(raw_data)
    /\ \A i \in Range(cleaned_data) :
          /\ DOMAIN raw_data'[i] = DOMAIN raw_data[i] \cup Substituted(raw_data[i])
          /\ \A f \in DOMAIN raw_data'[i] :
                raw_data'[i][f] = IF f \in Substituted(raw_data[i])
                                  THEN MissingDefaults[f] ELSE raw_data[i][f]

\* C18: the missing-value stage removes no record and keeps the order; it
\* replaces an absent or empty passenger_count by "1", store_and_fwd_flag by
\* "N" and vendor_id by "1" and leaves the other values as they are; and
\* missing_values_fixed grows by the number of fields substituted, two for
\* a record with two defaulted fields
C18_FixMissing ==
    [][pc = "deduplicated" =>
        /\ DefaultsFilledIn
        /\ stats'.missing_values_fixed = stats.missing_values_fixed
              + SumSeq([j \in 1..Len(cleaned_data) |->
                           Cardinality(Substituted(raw_data[cleaned_data[j]]))])]_vars

\* the same with the counter growing by the number of records that had a
\* field substituted
FixMissingPerRecord ==
    [][pc = "deduplicated" =>
        /\ DefaultsFilledIn
        /\ stats'.missing_values_fixed = stats.missing_values_fixed
              + Cardinality({j \in 1..Len(cleaned_data) :
                                Substituted(raw_data[cleaned_data[j]]) # {}})]_vars

\* the stage has run on a record with two fields to substitute and has
\* counted one
TwoFieldsOneCount ==
    /\ pc = "fixed"
    /\ stats.missing_values_fixed = 1
    /\ \E i \in Range(cleaned_data) :
          /\ Cardinality(Substituted(_read_csv_data(input_file)[i])) = 2
          /\ raw_data[i].passenger_count = "1"
          /\ raw_data[i].vendor_id = "1"

\* C15: when the input file of the cleaning pipeline is missing or
\* unreadable the run halts before any cleaning stage: the run is where it
\* was constructed or has exited, the counters duplicates_removed,
\* coordinate_errors, datetime_errors, duration_errors and outliers_detected
\* are unchanged, neither the cleaned file nor the report is written, and
\* there is no record set
C15_FatalInput ==
    read_fails(input_file) =>
        /\ pc \in {"constructed", "exited"}
        /\ pc = "exited" => raised = "SystemExit"
        /\ \A counter \in {"duplicates_removed", "coordinate_errors",
                           "datetime_errors", "duration_errors",
                           "outliers_detected"} :
               stats[counter] = ZeroStats[counter]
        /\ output_file = NoFile
        /\ report_file = NoReport
        /\ raw_data = <<>>
        /\ cleaned_data = <<>>
        /\ result = <<>>

\* the run on a file that is there and cannot be read has exited
C15_Witness ==
    /\ pc = "exited"
    /\ raised = "SystemExit"
    /\ input_file.exists

\* detect_outliers_iqr on the durations of the survivors, as line 300 calls
\* it
SurvivorOutliers ==
    detect_outliers_iqr(durations_of(raw_data, cleaned_data),
                        OutlierMultiplier)

\* C22: detect_outliers_iqr on fewer than 4 values returns an empty index
\* list and an empty stats mapping; so the outlier stage of a cleaning run
\* with fewer than 4 survivors flags every survivor NORMAL, leaves
\* outliers_detected as it was and does not fail
C22_FewSurvivors ==
    [][(pc = "duration_checked" /\ Len(cleaned_data) < 4) =>
        /\ SurvivorOutliers = <<<<>>, EmptyDict>>
        /\ pc' = "outliers_flagged"
        /\ raised' = "None"
        /\ cleaned_data' = cleaned_data
        /\ \A i \in Range(cleaned_data) : raw_data'[i].outlier_flag = "NORMAL"
        /\ stats'.outliers_detected = stats.outliers_detected]_vars

\* three survivors, one of them an hour long among trips of minutes
C22_Witness ==
    /\ pc = "outliers_flagged"
    /\ Len(cleaned_data) = 3
    /\ \E i, j \in Range(cleaned_data) :
          /\ raw_data[i].trip_duration = "3600"
          /\ raw_data[j].trip_duration = "455"
    /\ \A i \in Range(cleaned_data) : raw_data[i].outlier_flag = "NORMAL"
    /\ stats.outliers_detected = 0

\* C27: after a completed cleaning run valid_records is the number of
\* survivors and valid_records + invalid_records = total_records, whatever
\* the input, a run in which every record is rejected included
C27_SummaryAddsUp ==
    pc = "done" =>
        /\ stats.valid_records = Len(cleaned_data)
        /\ stats.valid_records + stats.invalid_records = stats.total_records

\* what the code keeps: the same for a run with at least one survivor; with
\* none the two counters stay 0
SummaryWithSurvivors ==
    /\ (pc = "done" /\ Len(cleaned_data) > 0) =>
          /\ stats.valid_records = Len(cleaned_data)
          /\ stats.valid_records + stats.invalid_records = stats.total_records
    /\ (pc = "done" /\ Len(cleaned_data) = 0) =>
          stats.valid_records = 0 /\ stats.invalid_records = 0

\* a completed run on records that were all rejected
NoSurvivor ==
    /\ pc = "done"
    /\ stats.total_records = 2
    /\ Len(cleaned_data) = 0
    /\ stats.invalid_records = 0
    /\ ~output_file.exists
    /\ report_file.exists

-----------------------------------------------------------------------------
(* feature_engineering.py : TaxiFeatureEngineer                            *)
(*                                                                         *)
(* As in the cleaner, raw_data holds the dicts in the order loaded and     *)
(* cleaned_data the list the steps hand on, as positions in raw_data.      *)
(* Numbers read from text are in units of 1/FloatUnit, except durations,   *)
(* which are whole seconds in the files of the model (FeatureSeconds).     *)

\* the Python object None, which csv.DictReader gives to the fields a row is
\* too short for; no field of a file of the model is this text
None == "<None>"

\* the digits of n, zero-padded to a width
RECURSIVE Padded(_, _)
Padded(n, width) ==
    IF width = 0 THEN "" ELSE Padded(n \div 10, width - 1) \o Digit(n % 10)

RECURSIVE Power10(_)
Power10(digits) == IF digits = 0 THEN 1 ELSE 10 * Power10(digits - 1)

\* f"{x:.3f}", f"{x:.2f}", ...: the text of x = v / 10^digits, v >= 0
Fixed(v, digits) ==
    IF digits = 0 THEN Str(v)
    ELSE Str(v \div Power10(digits)) \o "."
           \o Padded(v % Power10(digits), digits)

\* the quotients of the model that lie halfway between two roundings and
\* that the float arithmetic of the named field rounds up
ties_rounded_up ==
    {<<"efficiency_score", 1190, 4>>}

\* num / den >= 0 rounded to a whole number as formatting the float does
Rounded(field, num, den) ==
    LET q == num \div den
        r == num % den
    IN  IF 2 * r < den THEN q
        ELSE IF 2 * r > den THEN q + 1
        ELSE IF <<field, num, den>> \in ties_rounded_up THEN q + 1
        ELSE q

\* Python floats are IEEE 754 doubles. A float of the model is
\* <<sign, exponent, mantissa>> and stands for sign * mantissa * 2^exponent:
\* sign is 1 or -1 and the mantissa a whole number of exactly 53 bits, kept
\* as four limbs of 14 bits, the lowest first; zero is <<0, 0, <<>>>>. The
\* arithmetic is exact on whole numbers of any length (sequences of limbs)
\* and then rounds to 53 bits, a tie to the even mantissa, as the processor
\* does. No float of the model is subnormal, infinite or NaN.
Limb == 2 ^ 14

LimbAt(a, i) == IF i <= Len(a) THEN a[i] ELSE 0

RECURSIVE Trim(_)
Trim(a) ==
    IF Len(a) > 0 /\ a[Len(a)] = 0 THEN Trim(SubSeq(a, 1, Len(a) - 1)) ELSE a

\* the limbs of a whole number 0 <= n < 2^31, and back
BigOf(n) == Trim(<<n % Limb, (n \div Limb) % Limb, n \div (Limb * Limb)>>)

IntOf(a) == LimbAt(a, 1) + Limb * LimbAt(a, 2) + Limb * Limb * LimbAt(a, 3)

\* a + b from the i-th limbs on, with the carry of the limbs before
RECURSIVE AddFrom(_, _, _, _)
AddFrom(a, b, i, carry) ==
    IF i > Len(a) /\ i > Len(b)
    THEN IF carry = 0 THEN <<>> ELSE <<carry>>
    ELSE <<(LimbAt(a, i) + LimbAt(b, i) + carry) % Limb>>
           \o AddFrom(a, b, i + 1,
                      (LimbAt(a, i) + LimbAt(b, i) + carry) \div Limb)

BigAdd(a, b) == AddFrom(a, b, 1, 0)

\* a - b for a >= b
RECURSIVE SubFrom(_, _, _, _)
SubFrom(a, b, i, borrow) ==
    IF i > Len(a) THEN <<>>
    ELSE <<(a[i] - LimbAt(b, i) - borrow + Limb) % Limb>>
           \o SubFrom(a, b, i + 1,
                      IF a[i] - LimbAt(b, i) - borrow < 0 THEN 1 ELSE 0)

BigSub(a, b) == Trim(SubFrom(a, b, 1, 0))

\* a * d for one limb d
RECURSIVE TimesFrom(_, _, _, _)
TimesFrom(a, d, i, carry) ==
    IF i > Len(a)
    THEN IF carry = 0 THEN <<>> ELSE <<carry>>
    ELSE <<(a[i] * d + carry) % Limb>>
           \o TimesFrom(a, d, i + 1, (a[i] * d + carry) \div Limb)

\* a * b, the limbs of b from the j-th on
RECURSIVE MulFrom(_, _, _)
MulFrom(a, b, j) ==
    IF j > Len(b) THEN <<>>
    ELSE BigAdd(TimesFrom(a, b[j], 1, 0),
                IF j = Len(b) THEN <<>> ELSE <<0>> \o MulFrom(a, b, j + 1))

BigMul(a, b) == Trim(MulFrom(a, b, 1))

\* the quotient of a by a whole number 0 < d <= Limb, from the i-th limb
\* down, rest being what the limbs above have left
RECURSIVE DivFrom(_, _, _, _)
DivFrom(a, d, i, rest) ==
    IF i = 0 THEN <<>>
    ELSE DivFrom(a, d, i - 1, (rest * Limb + a[i]) % d)
           \o <<(rest * Limb + a[i]) \div d>>

BigDiv(a, d) == Trim(DivFrom(a, d, Len(a), 0))

BigLess(a, b) ==
    IF Len(a) # Len(b) THEN Len(a) < Len(b)
    ELSE \E i \in 1..Len(a) :
            /\ a[i] < b[i]
            /\ \A j \in (i + 1)..Len(a) : a[j] = b[j]

RECURSIVE BitsOf(_)
BitsOf(n) == IF n = 0 THEN 0 ELSE 1 + BitsOf(n \div 2)

\* the number of bits of a
BitLen(a) == IF a = <<>> THEN 0 ELSE 14 * (Len(a) - 1) + BitsOf(a[Len(a)])

\* a * 2^bits and the whole part of a / 2^bits
ShiftLeft(a, bits) ==
    IF a = <<>> THEN <<>>
    ELSE [i \in 1..(bits \div 14) |-> 0] \o TimesFrom(a, 2 ^ (bits % 14), 1, 0)

ShiftRight(a, bits) ==
    IF bits \div 14 >= Len(a) THEN <<>>
    ELSE BigDiv(SubSeq(a, (bits \div 14) + 1, Len(a)), 2 ^ (bits % 14))

\* q or q + 1, whichever is nearer when rest of a whole of 2 * half is
\* left over, a tie going to the even one
Nearest(q, rest, half) ==
    IF BigLess(half, rest) \/ (rest = half /\ LimbAt(q, 1) % 2 = 1)
    THEN BigAdd(q, <<1>>) ELSE q

\* a / 2^bits rounded to a whole number, q being its whole part
RoundedFrom(q, a, bits) ==
    Nearest(q, BigSub(a, ShiftLeft(q, bits)), ShiftLeft(<<1>>, bits - 1))

ShiftRound(a, bits) ==
    IF bits = 0 THEN a ELSE RoundedFrom(ShiftRight(a, bits), a, bits)

Zero == <<0, 0, <<>>>>

\* the float sign * m * 2^e for a mantissa m of 53 bits, or of 54 bits after
\* a rounding that carried
Carried(sign, m, e) ==
    IF BitLen(m) > 53 THEN <<sign, e + 1, ShiftRight(m, 1)>>
    ELSE <<sign, e, m>>

\* the float nearest to sign * n * 2^e, n having 53 + excess bits
RoundBy(sign, n, e, excess) ==
    IF excess <= 0 THEN <<sign, e + excess, ShiftLeft(n, 0 - excess)>>
    ELSE Carried(sign, ShiftRound(n, excess), e + excess)

\* the float nearest to sign * n * 2^e
RoundFloat(sign, n, e) ==
    IF n = <<>> THEN Zero ELSE RoundBy(sign, n, e, BitLen(n) - 53)

\* x * y
float_mul(x, y) ==
    IF x[1] = 0 \/ y[1] = 0 THEN Zero
    ELSE RoundFloat(x[1] * y[1], BigMul(x[3], y[3]), x[2] + y[2])

\* sx * a * 2^e + sy * b * 2^e
AddAligned(sx, a, sy, b, e) ==
    RoundFloat(IF sx = sy \/ BigLess(b, a) THEN sx ELSE sy,
               IF sx = sy THEN BigAdd(a, b)
               ELSE IF BigLess(b, a) THEN BigSub(a, b) ELSE BigSub(b, a),
               e)

\* x + y for floats that are not zero, e being the smaller exponent
AddAt(x, y, e) ==
    AddAligned(x[1], ShiftLeft(x[3], x[2] - e),
               y[1], ShiftLeft(y[3], y[2] - e), e)

\* x + y
float_add(x, y) ==
    IF x[1] = 0 THEN y
    ELSE IF y[1] = 0 THEN x
    ELSE AddAt(x, y, IF x[2] < y[2] THEN x[2] ELSE y[2])

\* x - y
float_sub(x, y) == float_add(x, <<0 - y[1], y[2], y[3]>>)

\* x < y: the difference of two floats that differ does not round to zero
float_less(x, y) == float_sub(x, y)[1] < 0

\* x / 2 and 2 * x
float_half(x) == IF x[1] = 0 THEN x ELSE <<x[1], x[2] - 1, x[3]>>

float_twice(x) == IF x[1] = 0 THEN x ELSE <<x[1], x[2] + 1, x[3]>>

\* the float nearest to sign * (q + part) * 2^e, q being a whole number of
\* more than 54 bits and part, which is less than 1, zero or not
RoundWithRest(sign, q, exact, e) ==
    RoundFloat(sign, BigAdd(ShiftLeft(q, 1), IF exact THEN <<>> ELSE <<1>>),
               e - 1)

\* the float nearest to sign * n / FloatUnit * 2^e, for n of 70 bits or more
RoundQuotient(sign, n, q, e) ==
    RoundWithRest(sign, q, BigMul(q, <<FloatUnit>>) = n, e)

FloatOfScaled(sign, n, e) == RoundQuotient(sign, n, BigDiv(n, FloatUnit), e)

\* float(text) for a text with the value v / FloatUnit: the nearest float
double_of(v) ==
    IF v = 0 THEN Zero
    ELSE IF v < 0 THEN FloatOfScaled(-1, ShiftLeft(BigOf(0 - v), 70), -70)
    ELSE FloatOfScaled(1, ShiftLeft(BigOf(v), 70), -70)

\* the thousandths in x >= 0, of which n * 2^e is a thousand times as much
ThousandthsOf(n, e) ==
    IF e >= 0 THEN IntOf(ShiftLeft(n, e)) ELSE IntOf(ShiftRound(n, 0 - e))

\* f"{x:.3f}" for x >= 0: the thousandths nearest to x, a tie to the even
Thousandths(x) ==
    IF x[1] = 0 THEN 0 ELSE ThousandthsOf(BigMul(x[3], <<1000>>), x[2])

\* math.sin, math.cos, math.sqrt and math.asin of the C library, on the
\* floats they are given in the model
sin_table ==
    (   <<-1, -51, <<8658, 15564, 6087, 1206>>>> :> <<-1, -53, <<15309, 6652, 2534, 1448>>>>
    @@  <<-1, -51, <<8100, 10141, 9076, 1135>>>> :> <<-1, -53, <<10548, 5702, 16197, 1633>>>>
    @@  <<-1, -51, <<12674, 4543, 13162, 1134>>>> :> <<-1, -53, <<3741, 5638, 13057, 1635>>>>
    @@  <<-1, -51, <<5756, 471, 12357, 1134>>>> :> <<-1, -53, <<8966, 4321, 14995, 1635>>>>
    @@  <<-1, -51, <<14713, 14411, 11873, 1134>>>> :> <<-1, -53, <<7073, 14696, 16157, 1635>>>>
    @@  <<-1, -51, <<14098, 8348, 10380, 1134>>>> :> <<-1, -53, <<12551, 15211, 3366, 1636>>>>
    @@  <<-1, -51, <<3192, 1295, 4568, 1134>>>> :> <<-1, -53, <<15988, 7877, 959, 1637>>>>
    @@  <<-1, -51, <<4216, 1482, 15835, 1133>>>> :> <<-1, -53, <<12139, 1927, 13253, 1637>>>>
    @@  <<-1, -52, <<11544, 4368, 8117, 1608>>>> :> <<-1, -52, <<0, 0, 0, 1024>>>>
    @@  <<-1, -52, <<10428, 9906, 14094, 1466>>>> :> <<-1, -53, <<12743, 504, 7223, 2028>>>>
    @@  <<-1, -52, <<3192, 15095, 5881, 1465>>>> :> <<-1, -53, <<2888, 12809, 404, 2028>>>>
    @@  <<-1, -52, <<5740, 6950, 4271, 1465>>>> :> <<-1, -53, <<6905, 14049, 16339, 2027>>>>
    @@  <<-1, -52, <<7270, 2063, 3305, 1465>>>> :> <<-1, -53, <<1947, 5832, 16070, 2027>>>>
    @@  <<-1, -52, <<6040, 6321, 318, 1465>>>> :> <<-1, -53, <<11495, 10720, 15236, 2027>>>>
    @@  <<-1, -52, <<611, 8598, 5077, 1464>>>> :> <<-1, -53, <<13457, 11992, 11981, 2027>>>>
    @@  <<-1, -52, <<2661, 8972, 11227, 1463>>>> :> <<-1, -53, <<287, 830, 9103, 2027>>>>
    @@  <<-1, -52, <<1549, 8936, 14596, 1169>>>> :> <<-1, -53, <<6016, 14779, 16211, 1862>>>>
    @@  <<-1, -52, <<10974, 16099, 3937, 1169>>>> :> <<-1, -53, <<4176, 11942, 7351, 1862>>>>
    @@  <<-1, -52, <<5166, 9140, 11288, 1168>>>> :> <<-1, -53, <<1639, 13867, 16216, 1861>>>>
    @@  <<-1, -52, <<16136, 2353, 9063, 1168>>>> :> <<-1, -53, <<13800, 3060, 14363, 1861>>>>
    @@  <<-1, -52, <<12946, 6608, 8726, 1168>>>> :> <<-1, -53, <<1733, 10684, 14082, 1861>>>>
    @@  <<-1, -52, <<5229, 11684, 3250, 1168>>>> :> <<-1, -53, <<11341, 3099, 9519, 1861>>>>
    @@  <<-1, -52, <<6391, 4451, 12314, 1167>>>> :> <<-1, -53, <<10670, 3733, 3413, 1861>>>>
    @@  <<-1, -52, <<7669, 11800, 14247, 1166>>>> :> <<-1, -53, <<10522, 325, 7727, 1860>>>>
    @@  <<-1, -53, <<191, 8762, 7746, 1751>>>> :> <<-1, -53, <<7223, 4740, 10571, 1545>>>>
    @@  <<-1, -53, <<11544, 4368, 8117, 1608>>>> :> <<-1, -53, <<15308, 6652, 2534, 1448>>>>
    @@  <<-1, -53, <<6513, 16359, 8487, 1465>>>> :> <<-1, -53, <<4052, 1249, 9976, 1343>>>>
    @@  <<-1, -53, <<9312, 15444, 3687, 1325>>>> :> <<-1, -53, <<1902, 14288, 10812, 1234>>>>
    @@  <<-1, -53, <<11223, 9437, 3646, 1322>>>> :> <<-1, -53, <<8412, 6812, 4310, 1232>>>>
    @@  <<-1, -53, <<16320, 9531, 425, 1322>>>> :> <<-1, -53, <<14557, 10179, 1737, 1232>>>>
    @@  <<-1, -53, <<2996, 16142, 14876, 1321>>>> :> <<-1, -53, <<3386, 14014, 193, 1232>>>>
    @@  <<-1, -53, <<536, 8274, 8903, 1321>>>> :> <<-1, -53, <<3562, 12972, 11805, 1231>>>>
    @@  <<-1, -53, <<6062, 12827, 2037, 1320>>>> :> <<-1, -53, <<14946, 1376, 9610, 1230>>>>
    @@  <<-1, -53, <<10162, 13575, 14337, 1318>>>> :> <<-1, -53, <<8056, 6177, 9629, 1229>>>>
    @@  <<-1, -54, <<15500, 3040, 8246, 1766>>>> :> <<-1, -54, <<7597, 4812, 4083, 1712>>>>
    @@  <<-1, -54, <<4228, 16053, 15979, 1762>>>> :> <<-1, -54, <<9414, 7198, 715, 1709>>>>
    @@  <<-1, -54, <<8875, 3505, 3082, 1761>>>> :> <<-1, -54, <<8258, 11585, 6869, 1707>>>>
    @@  <<-1, -54, <<10778, 7423, 13947, 1759>>>> :> <<-1, -54, <<9385, 2511, 3343, 1706>>>>
    @@  <<-1, -54, <<14400, 8058, 12600, 1759>>>> :> <<-1, -54, <<7144, 9998, 2118, 1706>>>>
    @@  <<-1, -54, <<9128, 13681, 3698, 1759>>>> :> <<-1, -54, <<4564, 11385, 10409, 1705>>>>
    @@  <<-1, -54, <<2280, 2228, 333, 1757>>>> :> <<-1, -54, <<14137, 13114, 10321, 1703>>>>
    @@  <<-1, -54, <<7212, 14498, 6850, 1754>>>> :> <<-1, -54, <<6478, 10389, 4312, 1701>>>>
    @@  <<-1, -54, <<9554, 3025, 8642, 1748>>>> :> <<-1, -54, <<12916, 13472, 14793, 1695>>>>
    @@  <<-1, -54, <<14486, 15295, 15159, 1745>>>> :> <<-1, -54, <<883, 16336, 8747, 1693>>>>
    @@  <<-1, -54, <<7638, 3842, 11794, 1743>>>> :> <<-1, -54, <<11460, 7299, 8611, 1691>>>>
    @@  <<-1, -54, <<2366, 9465, 2892, 1743>>>> :> <<-1, -54, <<13486, 1082, 504, 1691>>>>
    @@  <<-1, -54, <<5988, 10100, 1545, 1743>>>> :> <<-1, -54, <<4937, 4081, 15661, 1690>>>>
    @@  <<-1, -54, <<7891, 14018, 12410, 1741>>>> :> <<-1, -54, <<12231, 9373, 12094, 1689>>>>
    @@  <<-1, -54, <<12538, 1470, 15897, 1739>>>> :> <<-1, -54, <<314, 15365, 1801, 1688>>>>
    @@  <<-1, -54, <<1266, 14483, 7246, 1736>>>> :> <<-1, -54, <<9698, 13269, 14662, 1684>>>>
    @@  <<-1, -54, <<15876, 10622, 9383, 1462>>>> :> <<-1, -54, <<11462, 1104, 11309, 1431>>>>
    @@  <<-1, -54, <<4424, 6509, 15901, 1459>>>> :> <<-1, -54, <<256, 4802, 4127, 1429>>>>
    @@  <<-1, -54, <<13960, 11439, 12535, 1457>>>> :> <<-1, -54, <<3141, 5926, 3029, 1427>>>>
    @@  <<-1, -54, <<8688, 678, 3634, 1457>>>> :> <<-1, -54, <<3011, 5503, 11069, 1426>>>>
    @@  <<-1, -54, <<12310, 1313, 2287, 1457>>>> :> <<-1, -54, <<11474, 11750, 9806, 1426>>>>
    @@  <<-1, -54, <<14213, 5231, 13152, 1455>>>> :> <<-1, -54, <<5662, 1940, 5658, 1425>>>>
    @@  <<-1, -54, <<2476, 9068, 254, 1454>>>> :> <<-1, -54, <<10431, 3843, 10972, 1423>>>>
    @@  <<-1, -54, <<7588, 5696, 7988, 1450>>>> :> <<-1, -54, <<3970, 3892, 5917, 1420>>>>
    @@  <<-1, -54, <<5814, 1836, 10125, 1176>>>> :> <<-1, -54, <<15029, 1263, 8233, 1160>>>>
    @@  <<-1, -54, <<10746, 14106, 258, 1174>>>> :> <<-1, -54, <<4165, 16138, 109, 1158>>>>
    @@  <<-1, -54, <<3898, 2653, 13277, 1171>>>> :> <<-1, -54, <<4588, 10898, 14599, 1155>>>>
    @@  <<-1, -54, <<15010, 8275, 4375, 1171>>>> :> <<-1, -54, <<4967, 10555, 6059, 1155>>>>
    @@  <<-1, -54, <<2248, 8911, 3028, 1171>>>> :> <<-1, -54, <<9792, 6147, 4767, 1155>>>>
    @@  <<-1, -54, <<4151, 12829, 13893, 1169>>>> :> <<-1, -54, <<2274, 14539, 136, 1154>>>>
    @@  <<-1, -54, <<8798, 281, 996, 1168>>>> :> <<-1, -54, <<7051, 8300, 4807, 1152>>>>
    @@  <<-1, -54, <<13910, 13293, 8729, 1164>>>> :> <<-1, -54, <<11131, 11984, 14868, 1148>>>>
    @@  <<-1, -55, <<5528, 12324, 7885, 1158>>>> :> <<-1, -55, <<4740, 1492, 10221, 1154>>>>
    @@  <<-1, -55, <<5544, 15317, 7933, 1153>>>> :> <<-1, -55, <<13031, 885, 11083, 1149>>>>
    @@  <<-1, -55, <<11264, 762, 13239, 1147>>>> :> <<-1, -55, <<13516, 735, 920, 1144>>>>
    @@  <<-1, -55, <<1424, 2058, 5729, 1146>>>> :> <<-1, -55, <<3272, 16108, 10027, 1142>>>>
    @@  <<-1, -55, <<13664, 12114, 14382, 1145>>>> :> <<-1, -55, <<15609, 2133, 2373, 1142>>>>
    @@  <<-1, -55, <<1284, 12492, 1498, 1145>>>> :> <<-1, -55, <<15741, 14812, 5998, 1141>>>>
    @@  <<-1, -55, <<7481, 2378, 13418, 1143>>>> :> <<-1, -55, <<7705, 6710, 1737, 1140>>>>
    @@  <<-1, -55, <<8928, 4848, 1333, 1133>>>> :> <<-1, -55, <<686, 10693, 7732, 1129>>>>
    @@  <<-1, -56, <<7481, 2378, 13418, 1143>>>> :> <<-1, -56, <<4392, 13737, 14582, 1142>>>>
    @@  <<-1, -61, <<11776, 3314, 9757, 1625>>>> :> <<-1, -61, <<6917, 8651, 9714, 1625>>>>
    @@  <<-1, -61, <<12288, 8000, 14758, 1546>>>> :> <<-1, -61, <<15972, 11737, 14721, 1546>>>>
    @@  <<-1, -61, <<12800, 14642, 12840, 1305>>>> :> <<-1, -61, <<4468, 12712, 12818, 1305>>>>
    @@  <<-1, -61, <<4608, 5735, 13446, 1213>>>> :> <<-1, -61, <<5389, 9567, 13428, 1213>>>>
    @@  <<-1, -61, <<11264, 2408, 5260, 1095>>>> :> <<-1, -61, <<4817, 1519, 5247, 1095>>>>
    @@  <<-1, -62, <<4096, 1298, 224, 1885>>>> :> <<-1, -62, <<16335, 7284, 207, 1885>>>>
    @@  <<-1, -62, <<9216, 12131, 857, 1863>>>> :> <<-1, -62, <<7767, 11149, 841, 1863>>>>
    @@  <<-1, -62, <<16128, 3865, 1876, 1733>>>> :> <<-1, -62, <<4078, 5036, 1863, 1733>>>>
    @@  <<-1, -62, <<3072, 9745, 15793, 1723>>>> :> <<-1, -62, <<15027, 14252, 15780, 1723>>>>
    @@  <<-1, -62, <<2560, 11297, 14718, 1713>>>> :> <<-1, -62, <<6556, 3051, 14706, 1713>>>>
    @@  <<-1, -62, <<12800, 8521, 15035, 1702>>>> :> <<-1, -62, <<4005, 4188, 15023, 1702>>>>
    @@  <<-1, -62, <<6144, 3269, 5610, 1698>>>> :> <<-1, -62, <<1900, 551, 5598, 1698>>>>
    @@  <<-1, -62, <<0, 12581, 15544, 1637>>>> :> <<-1, -62, <<14206, 13995, 15533, 1637>>>>
    @@  <<-1, -62, <<7168, 10432, 3969, 1613>>>> :> <<-1, -62, <<3803, 3433, 3959, 1613>>>>
    @@  <<-1, -62, <<1024, 3360, 13904, 1552>>>> :> <<-1, -62, <<4060, 14838, 13894, 1552>>>>
    @@  <<-1, -62, <<4608, 11716, 4795, 1537>>>> :> <<-1, -62, <<11207, 11343, 4786, 1537>>>>
    @@  <<-1, -62, <<7168, 286, 7896, 1524>>>> :> <<-1, -62, <<13810, 3578, 7887, 1524>>>>
    @@  <<-1, -62, <<11776, 7479, 14481, 1390>>>> :> <<-1, -62, <<238, 12681, 14474, 1390>>>>
    @@  <<-1, -62, <<5120, 6256, 13723, 1369>>>> :> <<-1, -62, <<14773, 16352, 13716, 1369>>>>
    @@  <<-1, -62, <<3072, 5331, 2906, 1366>>>> :> <<-1, -62, <<15507, 16263, 2899, 1366>>>>
    @@  <<-1, -62, <<8448, 12135, 11256, 1360>>>> :> <<-1, -62, <<2534, 7930, 11250, 1360>>>>
    @@  <<-1, -62, <<15360, 3869, 12275, 1230>>>> :> <<-1, -62, <<10160, 9932, 12270, 1230>>>>
    @@  <<-1, -62, <<4608, 1185, 4502, 1074>>>> :> <<-1, -62, <<5406, 16274, 4498, 1074>>>>
    @@  <<-1, -62, <<768, 15719, 15635, 1066>>>> :> <<-1, -62, <<6022, 15448, 15632, 1066>>>>
    @@  <<-1, -63, <<2048, 641, 3890, 1947>>>> :> <<-1, -63, <<3973, 7453, 3885, 1947>>>>
    @@  <<-1, -63, <<14336, 1894, 12874, 1919>>>> :> <<-1, -63, <<15987, 11838, 12869, 1919>>>>
    @@  <<-1, -63, <<6144, 2880, 7375, 1826>>>> :> <<-1, -63, <<4534, 6436, 7371, 1826>>>>
    @@  <<-1, -63, <<4096, 5984, 5225, 1806>>>> :> <<-1, -63, <<1438, 11567, 5221, 1806>>>>
    @@  <<-1, -63, <<2048, 13506, 9977, 1641>>>> :> <<-1, -63, <<7985, 1271, 9975, 1641>>>>
    @@  <<-1, -63, <<5120, 11059, 8461, 1599>>>> :> <<-1, -63, <<6754, 2198, 8459, 1599>>>>
    @@  <<-1, -63, <<10240, 6822, 1763, 1453>>>> :> <<-1, -63, <<9591, 8378, 1761, 1453>>>>
    @@  <<-1, -63, <<9216, 5897, 7330, 1449>>>> :> <<-1, -63, <<12919, 7688, 7328, 1449>>>>
    @@  <<-1, -63, <<12288, 3450, 5814, 1407>>>> :> <<-1, -63, <<1579, 7863, 5812, 1407>>>>
    @@  <<-1, -63, <<14336, 9061, 5248, 1332>>>> :> <<-1, -63, <<2253, 1388, 5247, 1332>>>>
    @@  <<-1, -63, <<12288, 3839, 4049, 1279>>>> :> <<-1, -63, <<617, 15312, 4047, 1279>>>>
    @@  <<-1, -63, <<0, 15062, 2917, 1129>>>> :> <<-1, -63, <<1597, 416, 2917, 1129>>>>
    @@  <<-1, -64, <<3072, 16368, 7555, 2009>>>> :> <<-1, -64, <<578, 12117, 7554, 2009>>>>
    @@  <<-1, -64, <<9216, 3805, 1808, 1830>>>> :> <<-1, -64, <<3182, 4601, 1807, 1830>>>>
    @@  <<-1, -64, <<11264, 6822, 1763, 1453>>>> :> <<-1, -64, <<11099, 15403, 1762, 1453>>>>
    @@  <<-1, -64, <<14336, 7479, 14481, 1390>>>> :> <<-1, -64, <<15654, 636, 14481, 1390>>>>
    @@  <<-1, -64, <<1024, 1929, 15115, 1368>>>> :> <<-1, -64, <<3116, 11789, 15114, 1368>>>>
    @@  <<-1, -65, <<0, 8042, 8506, 1976>>>> :> <<-1, -65, <<12883, 3132, 8506, 1976>>>>
    @@  <<-1, -65, <<0, 615, 6063, 1493>>>> :> <<-1, -65, <<9172, 14881, 6062, 1493>>>>
    @@  <<-1, -65, <<12288, 14344, 6515, 1288>>>> :> <<-1, -65, <<22, 12985, 6515, 1288>>>>
    @@  <<-1, -65, <<4096, 12494, 1265, 1281>>>> :> <<-1, -65, <<8969, 11157, 1265, 1281>>>>
    @@  <<-1, -65, <<0, 2707, 11585, 1112>>>> :> <<-1, -65, <<1741, 1831, 11585, 1112>>>>
    @@  <<-1, -66, <<8192, 13835, 8144, 1610>>>> :> <<-1, -66, <<9179, 13171, 8144, 1610>>>>
    @@  <<-1, -67, <<0, 13324, 9773, 1932>>>> :> <<-1, -67, <<2917, 13037, 9773, 1932>>>>
    @@  <<-1, -68, <<0, 12762, 15748, 1346>>>> :> <<-1, -68, <<11846, 12737, 15748, 1346>>>>
    @@  <<0, 0, <<>>>> :> <<0, 0, <<>>>>
    @@  <<1, -68, <<0, 12762, 15748, 1346>>>> :> <<1, -68, <<11846, 12737, 15748, 1346>>>>
    @@  <<1, -67, <<0, 13324, 9773, 1932>>>> :> <<1, -67, <<2917, 13037, 9773, 1932>>>>
    @@  <<1, -66, <<8192, 13835, 8144, 1610>>>> :> <<1, -66, <<9179, 13171, 8144, 1610>>>>
    @@  <<1, -65, <<0, 2707, 11585, 1112>>>> :> <<1, -65, <<1741, 1831, 11585, 1112>>>>
    @@  <<1, -65, <<4096, 12494, 1265, 1281>>>> :> <<1, -65, <<8969, 11157, 1265, 1281>>>>
    @@  <<1, -65, <<12288, 14344, 6515, 1288>>>> :> <<1, -65, <<22, 12985, 6515, 1288>>>>
    @@  <<1, -65, <<0, 615, 6063, 1493>>>> :> <<1, -65, <<9172, 14881, 6062, 1493>>>>
    @@  <<1, -65, <<0, 8042, 8506, 1976>>>> :> <<1, -65, <<12883, 3132, 8506, 1976>>>>
    @@  <<1, -64, <<1024, 1929, 15115, 1368>>>> :> <<1, -64, <<3116, 11789, 15114, 1368>>>>
    @@  <<1, -64, <<14336, 7479, 14481, 1390>>>> :> <<1, -64, <<15654, 636, 14481, 1390>>>>
    @@  <<1, -64, <<11264, 6822, 1763, 1453>>>> :> <<1, -64, <<11099, 15403, 1762, 1453>>>>
    @@  <<1, -64, <<9216, 3805, 1808, 1830>>>> :> <<1, -64, <<3182, 4601, 1807, 1830>>>>
    @@  <<1, -64, <<3072, 16368, 7555, 2009>>>> :> <<1, -64, <<578, 12117, 7554, 2009>>>>
    @@  <<1, -63, <<0, 15062, 2917, 1129>>>> :> <<1, -63, <<1597, 416, 2917, 1129>>>>
    @@  <<1, -63, <<12288, 3839, 4049, 1279>>>> :> <<1, -63, <<617, 15312, 4047, 1279>>>>
    @@  <<1, -63, <<14336, 9061, 5248, 1332>>>> :> <<1, -63, <<2253, 1388, 5247, 1332>>>>
    @@  <<1, -63, <<12288, 3450, 5814, 1407>>>> :> <<1, -63, <<1579, 7863, 5812, 1407>>>>
    @@  <<1, -63, <<9216, 5897, 7330, 1449>>>> :> <<1, -63, <<12919, 7688, 7328, 1449>>>>
    @@  <<1, -63, <<10240, 6822, 1763, 1453>>>> :> <<1, -63, <<9591, 8378, 1761, 1453>>>>
    @@  <<1, -63, <<5120, 11059, 8461, 1599>>>> :> <<1, -63, <<6754, 2198, 8459, 1599>>>>
    @@  <<1, -63, <<2048, 13506, 9977, 1641>>>> :> <<1, -63, <<7985, 1271, 9975, 1641>>>>
    @@  <<1, -63, <<4096, 5984, 5225, 1806>>>> :> <<1, -63, <<1438, 11567, 5221, 1806>>>>
    @@  <<1, -63, <<6144, 2880, 7375, 1826>>>> :> <<1, -63, <<4534, 6436, 7371, 1826>>>>
    @@  <<1, -63, <<14336, 1894, 12874, 1919>>>> :> <<1, -63, <<15987, 11838, 12869, 1919>>>>
    @@  <<1, -63, <<2048, 641, 3890, 1947>>>> :> <<1, -63, <<3973, 7453, 3885, 1947>>>>
    @@  <<1, -62, <<768, 15719, 15635, 1066>>>> :> <<1, -62, <<6022, 15448, 15632, 1066>>>>
    @@  <<1, -62, <<4608, 1185, 4502, 1074>>>> :> <<1, -62, <<5406, 16274, 4498, 1074>>>>
    @@  <<1, -62, <<15360, 3869, 12275, 1230>>>> :> <<1, -62, <<10160, 9932, 12270, 1230>>>>
    @@  <<1, -62, <<8448, 12135, 11256, 1360>>>> :> <<1, -62, <<2534, 7930, 11250, 1360>>>>
    @@  <<1, -62, <<3072, 5331, 2906, 1366>>>> :> <<1, -62, <<15507, 16263, 2899, 1366>>>>
    @@  <<1, -62, <<5120, 6256, 13723, 1369>>>> :> <<1, -62, <<14773, 16352, 13716, 1369>>>>
    @@  <<1, -62, <<11776, 7479, 14481, 1390>>>> :> <<1, -62, <<238, 12681, 14474, 1390>>>>
    @@  <<1, -62, <<7168, 286, 7896, 1524>>>> :> <<1, -62, <<13810, 3578, 7887, 1524>>>>
    @@  <<1, -62, <<4608, 11716, 4795, 1537>>>> :> <<1, -62, <<11207, 11343, 4786, 1537>>>>
    @@  <<1, -62, <<1024, 3360, 13904, 1552>>>> :> <<1, -62, <<4060, 14838, 13894, 1552>>>>
    @@  <<1, -62, <<7168, 10432, 3969, 1613>>>> :> <<1, -62, <<3803, 3433, 3959, 1613>>>>
    @@  <<1, -62, <<0, 12581, 15544, 1637>>>> :> <<1, -62, <<14206, 13995, 15533, 1637>>>>
    @@  <<1, -62, <<6144, 3269, 5610, 1698>>>> :> <<1, -62, <<1900, 551, 5598, 1698>>>>
    @@  <<1, -62, <<12800, 8521, 15035, 1702>>>> :> <<1, -62, <<4005, 4188, 15023, 1702>>>>
    @@  <<1, -62, <<2560, 11297, 14718, 1713>>>> :> <<1, -62, <<6556, 3051, 14706, 1713>>>>
    @@  <<1, -62, <<3072, 9745, 15793, 1723>>>> :> <<1, -62, <<15027, 14252, 15780, 1723>>>>
    @@  <<1, -62, <<16128, 3865, 1876, 1733>>>> :> <<1, -62, <<4078, 5036, 1863, 1733>>>>
    @@  <<1, -62, <<9216, 12131, 857, 1863>>>> :> <<1, -62, <<7767, 11149, 841, 1863>>>>
    @@  <<1, -62, <<4096, 1298, 224, 1885>>>> :> <<1, -62, <<16335, 7284, 207, 1885>>>>
    @@  <<1, -61, <<11264, 2408, 5260, 1095>>>> :> <<1, -61, <<4817, 1519, 5247, 1095>>>>
    @@  <<1, -61, <<4608, 5735, 13446, 1213>>>> :> <<1, -61, <<5389, 9567, 13428, 1213>>>>
    @@  <<1, -61, <<12800, 14642, 12840, 1305>>>> :> <<1, -61, <<4468, 12712, 12818, 1305>>>>
    @@  <<1, -61, <<12288, 8000, 14758, 1546>>>> :> <<1, -61, <<15972, 11737, 14721, 1546>>>>
    @@  <<1, -61, <<11776, 3314, 9757, 1625>>>> :> <<1, -61, <<6917, 8651, 9714, 1625>>>>
    @@  <<1, -56, <<7481, 2378, 13418, 1143>>>> :> <<1, -56, <<4392, 13737, 14582, 1142>>>>
    @@  <<1, -55, <<8928, 4848, 1333, 1133>>>> :> <<1, -55, <<686, 10693, 7732, 1129>>>>
    @@  <<1, -55, <<7481, 2378, 13418, 1143>>>> :> <<1, -55, <<7705, 6710, 1737, 1140>>>>
    @@  <<1, -55, <<1284, 12492, 1498, 1145>>>> :> <<1, -55, <<15741, 14812, 5998, 1141>>>>
    @@  <<1, -55, <<13664, 12114, 14382, 1145>>>> :> <<1, -55, <<15609, 2133, 2373, 1142>>>>
    @@  <<1, -55, <<1424, 2058, 5729, 1146>>>> :> <<1, -55, <<3272, 16108, 10027, 1142>>>>
    @@  <<1, -55, <<11264, 762, 13239, 1147>>>> :> <<1, -55, <<13516, 735, 920, 1144>>>>
    @@  <<1, -55, <<5544, 15317, 7933, 1153>>>> :> <<1, -55, <<13031, 885, 11083, 1149>>>>
    @@  <<1, -55, <<5528, 12324, 7885, 1158>>>> :> <<1, -55, <<4740, 1492, 10221, 1154>>>>
    @@  <<1, -54, <<13910, 13293, 8729, 1164>>>> :> <<1, -54, <<11131, 11984, 14868, 1148>>>>
    @@  <<1, -54, <<8798, 281, 996, 1168>>>> :> <<1, -54, <<7051, 8300, 4807, 1152>>>>
    @@  <<1, -54, <<4151, 12829, 13893, 1169>>>> :> <<1, -54, <<2274, 14539, 136, 1154>>>>
    @@  <<1, -54, <<2248, 8911, 3028, 1171>>>> :> <<1, -54, <<9792, 6147, 4767, 1155>>>>
    @@  <<1, -54, <<15010, 8275, 4375, 1171>>>> :> <<1, -54, <<4967, 10555, 6059, 1155>>>>
    @@  <<1, -54, <<3898, 2653, 13277, 1171>>>> :> <<1, -54, <<4588, 10898, 14599, 1155>>>>
    @@  <<1, -54, <<10746, 14106, 258, 1174>>>> :> <<1, -54, <<4165, 16138, 109, 1158>>>>
    @@  <<1, -54, <<5814, 1836, 10125, 1176>>>> :> <<1, -54, <<15029, 1263, 8233, 1160>>>>
    @@  <<1, -54, <<7588, 5696, 7988, 1450>>>> :> <<1, -54, <<3970, 3892, 5917, 1420>>>>
    @@  <<1, -54, <<2476, 9068, 254, 1454>>>> :> <<1, -54, <<10431, 3843, 10972, 1423>>>>
    @@  <<1, -54, <<14213, 5231, 13152, 1455>>>> :> <<1, -54, <<5662, 1940, 5658, 1425>>>>
    @@  <<1, -54, <<12310, 1313, 2287, 1457>>>> :> <<1, -54, <<11474, 11750, 9806, 1426>>>>
    @@  <<1, -54, <<8688, 678, 3634, 1457>>>> :> <<1, -54, <<3011, 5503, 11069, 1426>>>>
    @@  <<1, -54, <<13960, 11439, 12535, 1457>>>> :> <<1, -54, <<3141, 5926, 3029, 1427>>>>
    @@  <<1, -54, <<4424, 6509, 15901, 1459>>>> :> <<1, -54, <<256, 4802, 4127, 1429>>>>
    @@  <<1, -54, <<15876, 10622, 9383, 1462>>>> :> <<1, -54, <<11462, 1104, 11309, 1431>>>>
    @@  <<1, -54, <<1266, 14483, 7246, 1736>>>> :> <<1, -54, <<9698, 13269, 14662, 1684>>>>
    @@  <<1, -54, <<12538, 1470, 15897, 1739>>>> :> <<1, -54, <<314, 15365, 1801, 1688>>>>
    @@  <<1, -54, <<7891, 14018, 12410, 1741>>>> :> <<1, -54, <<12231, 9373, 12094, 1689>>>>
    @@  <<1, -54, <<5988, 10100, 1545, 1743>>>> :> <<1, -54, <<4937, 4081, 15661, 1690>>>>
    @@  <<1, -54, <<2366, 9465, 2892, 1743>>>> :> <<1, -54, <<13486, 1082, 504, 1691>>>>
    @@  <<1, -54, <<7638, 3842, 11794, 1743>>>> :> <<1, -54, <<11460, 7299, 8611, 1691>>>>
    @@  <<1, -54, <<14486, 15295, 15159, 1745>>>> :> <<1, -54, <<883, 16336, 8747, 1693>>>>
    @@  <<1, -54, <<9554, 3025, 8642, 1748>>>> :> <<1, -54, <<12916, 13472, 14793, 1695>>>>
    @@  <<1, -54, <<7212, 14498, 6850, 1754>>>> :> <<1, -54, <<6478, 10389, 4312, 1701>>>>
    @@  <<1, -54, <<2280, 2228, 333, 1757>>>> :> <<1, -54, <<14137, 13114, 10321, 1703>>>>
    @@  <<1, -54, <<9128, 13681, 3698, 1759>>>> :> <<1, -54, <<4564, 11385, 10409, 1705>>>>
    @@  <<1, -54, <<14400, 8058, 12600, 1759>>>> :> <<1, -54, <<7144, 9998, 2118, 1706>>>>
    @@  <<1, -54, <<10778, 7423, 13947, 1759>>>> :> <<1, -54, <<9385, 2511, 3343, 1706>>>>
    @@  <<1, -54, <<8875, 3505, 3082, 1761>>>> :> <<1, -54, <<8258, 11585, 6869, 1707>>>>
    @@  <<1, -54, <<4228, 16053, 15979, 1762>>>> :> <<1, -54, <<9414, 7198, 715, 1709>>>>
    @@  <<1, -54, <<15500, 3040, 8246, 1766>>>> :> <<1, -54, <<7597, 4812, 4083, 1712>>>>
    @@  <<1, -53, <<10162, 13575, 14337, 1318>>>> :> <<1, -53, <<8056, 6177, 9629, 1229>>>>
    @@  <<1, -53, <<6062, 12827, 2037, 1320>>>> :> <<1, -53, <<14946, 1376, 9610, 1230>>>>
    @@  <<1, -53, <<536, 8274, 8903, 1321>>>> :> <<1, -53, <<3562, 12972, 11805, 1231>>>>
    @@  <<1, -53, <<2996, 16142, 14876, 1321>>>> :> <<1, -53, <<3386, 14014, 193, 1232>>>>
    @@  <<1, -53, <<16320, 9531, 425, 1322>>>> :> <<1, -53, <<14557, 10179, 1737, 1232>>>>
    @@  <<1, -53, <<11223, 9437, 3646, 1322>>>> :> <<1, -53, <<8412, 6812, 4310, 1232>>>>
    @@  <<1, -53, <<9312, 15444, 3687, 1325>>>> :> <<1, -53, <<1902, 14288, 10812, 1234>>>>
    @@  <<1, -53, <<6513, 16359, 8487, 1465>>>> :> <<1, -53, <<4052, 1249, 9976, 1343>>>>
    @@  <<1, -53, <<11544, 4368, 8117, 1608>>>> :> <<1, -53, <<15308, 6652, 2534, 1448>>>>
    @@  <<1, -53, <<191, 8762, 7746, 1751>>>> :> <<1, -53, <<7223, 4740, 10571, 1545>>>>
    @@  <<1, -52, <<7669, 11800, 14247, 1166>>>> :> <<1, -53, <<10522, 325, 7727, 1860>>>>
    @@  <<1, -52, <<6391, 4451, 12314, 1167>>>> :> <<1, -53, <<10670, 3733, 3413, 1861>>>>
    @@  <<1, -52, <<5229, 11684, 3250, 1168>>>> :> <<1, -53, <<11341, 3099, 9519, 1861>>>>
    @@  <<1, -52, <<12946, 6608, 8726, 1168>>>> :> <<1, -53, <<1733, 10684, 14082, 1861>>>>
    @@  <<1, -52, <<16136, 2353, 9063, 1168>>>> :> <<1, -53, <<13800, 3060, 14363, 1861>>>>
    @@  <<1, -52, <<5166, 9140, 11288, 1168>>>> :> <<1, -53, <<1639, 13867, 16216, 1861>>>>
    @@  <<1, -52, <<10974, 16099, 3937, 1169>>>> :> <<1, -53, <<4176, 11942, 7351, 1862>>>>
    @@  <<1, -52, <<1549, 8936, 14596, 1169>>>> :> <<1, -53, <<6016, 14779, 16211, 1862>>>>
    @@  <<1, -52, <<2661, 8972, 11227, 1463>>>> :> <<1, -53, <<287, 830, 9103, 2027>>>>
    @@  <<1, -52, <<611, 8598, 5077, 1464>>>> :> <<1, -53, <<13457, 11992, 11981, 2027>>>>
    @@  <<1, -52, <<6040, 6321, 318, 1465>>>> :> <<1, -53, <<11495, 10720, 15236, 2027>>>>
    @@  <<1, -52, <<7270, 2063, 3305, 1465>>>> :> <<1, -53, <<1947, 5832, 16070, 2027>>>>
    @@  <<1, -52, <<5740, 6950, 4271, 1465>>>> :> <<1, -53, <<6905, 14049, 16339, 2027>>>>
    @@  <<1, -52, <<3192, 15095, 5881, 1465>>>> :> <<1, -53, <<2888, 12809, 404, 2028>>>>
    @@  <<1, -52, <<10428, 9906, 14094, 1466>>>> :> <<1, -53, <<12743, 504, 7223, 2028>>>>
    @@  <<1, -52, <<11544, 4368, 8117, 1608>>>> :> <<1, -52, <<0, 0, 0, 1024>>>>
    @@  <<1, -51, <<4216, 1482, 15835, 1133>>>> :> <<1, -53, <<12139, 1927, 13253, 1637>>>>
    @@  <<1, -51, <<3192, 1295, 4568, 1134>>>> :> <<1, -53, <<15988, 7877, 959, 1637>>>>
    @@  <<1, -51, <<14098, 8348, 10380, 1134>>>> :> <<1, -53, <<12551, 15211, 3366, 1636>>>>
    @@  <<1, -51, <<14713, 14411, 11873, 1134>>>> :> <<1, -53, <<7073, 14696, 16157, 1635>>>>
    @@  <<1, -51, <<5756, 471, 12357, 1134>>>> :> <<1, -53, <<8966, 4321, 14995, 1635>>>>
    @@  <<1, -51, <<12674, 4543, 13162, 1134>>>> :> <<1, -53, <<3741, 5638, 13057, 1635>>>>
    @@  <<1, -51, <<8100, 10141, 9076, 1135>>>> :> <<1, -53, <<10548, 5702, 16197, 1633>>>>
    @@  <<1, -51, <<8658, 15564, 6087, 1206>>>> :> <<1, -53, <<15309, 6652, 2534, 1448>>>>)

cos_table ==
    (   <<-1, -52, <<11544, 4368, 8117, 1608>>>> :> <<1, -106, <<7175, 3153, 8803, 1129>>>>
    @@  <<-1, -55, <<7481, 2378, 13418, 1143>>>> :> <<1, -53, <<5242, 9410, 1130, 2028>>>>
    @@  <<0, 0, <<>>>> :> <<1, -52, <<0, 0, 0, 1024>>>>
    @@  <<1, -55, <<7481, 2378, 13418, 1143>>>> :> <<1, -53, <<5242, 9410, 1130, 2028>>>>
    @@  <<1, -53, <<7588, 5696, 7988, 1450>>>> :> <<1, -53, <<174, 11569, 7608, 1555>>>>
    @@  <<1, -53, <<2476, 9068, 254, 1454>>>> :> <<1, -53, <<4504, 7073, 2738, 1553>>>>
    @@  <<1, -53, <<14213, 5231, 13152, 1455>>>> :> <<1, -53, <<14972, 9825, 26, 1552>>>>
    @@  <<1, -53, <<12310, 1313, 2287, 1457>>>> :> <<1, -53, <<11410, 4210, 2114, 1551>>>>
    @@  <<1, -53, <<8688, 678, 3634, 1457>>>> :> <<1, -53, <<9740, 11741, 1234, 1551>>>>
    @@  <<1, -53, <<13960, 11439, 12535, 1457>>>> :> <<1, -53, <<4546, 1190, 11805, 1550>>>>
    @@  <<1, -53, <<4424, 6509, 15901, 1459>>>> :> <<1, -53, <<9005, 14930, 4571, 1549>>>>
    @@  <<1, -53, <<15876, 10622, 9383, 1462>>>> :> <<1, -53, <<12223, 1707, 9436, 1547>>>>
    @@  <<1, -52, <<11544, 4368, 8117, 1608>>>> :> <<1, -106, <<7175, 3153, 8803, 1129>>>>)

sqrt_table ==
    (   <<0, 0, <<>>>> :> <<0, 0, <<>>>>
    @@  <<1, -79, <<16377, 3826, 620, 1915>>>> :> <<1, -66, <<13022, 14780, 6608, 1980>>>>
    @@  <<1, -79, <<2271, 12500, 1674, 1915>>>> :> <<1, -66, <<1561, 2609, 7154, 1980>>>>
    @@  <<1, -79, <<4106, 5387, 2729, 1915>>>> :> <<1, -66, <<7512, 6980, 7699, 1980>>>>
    @@  <<1, -78, <<1694, 15436, 2445, 1572>>>> :> <<1, -65, <<1773, 5076, 13284, 1268>>>>
    @@  <<1, -78, <<1179, 279, 3807, 1572>>>> :> <<1, -65, <<6540, 8743, 13833, 1268>>>>
    @@  <<1, -78, <<11533, 6608, 5168, 1572>>>> :> <<1, -65, <<15055, 14231, 14382, 1268>>>>
    @@  <<1, -78, <<2511, 2690, 6430, 1733>>>> :> <<1, -65, <<15348, 6494, 4734, 1332>>>>
    @@  <<1, -78, <<7280, 4600, 6994, 1733>>>> :> <<1, -65, <<2491, 3046, 4951, 1332>>>>
    @@  <<1, -78, <<9216, 8945, 7558, 1733>>>> :> <<1, -65, <<12780, 497, 5168, 1332>>>>
    @@  <<1, -73, <<1866, 15667, 4674, 1288>>>> :> <<1, -63, <<6, 1773, 5207, 1624>>>>
    @@  <<1, -73, <<6816, 6839, 5515, 1288>>>> :> <<1, -63, <<10449, 15486, 5736, 1624>>>>
    @@  <<1, -73, <<14400, 16104, 6356, 1288>>>> :> <<1, -63, <<4312, 7665, 6267, 1624>>>>
    @@  <<1, -73, <<16129, 10263, 5160, 1451>>>> :> <<1, -63, <<7127, 5246, 556, 1724>>>>
    @@  <<1, -73, <<9028, 9575, 8153, 1451>>>> :> <<1, -63, <<14874, 15549, 2333, 1724>>>>
    @@  <<1, -73, <<14491, 9481, 11150, 1451>>>> :> <<1, -63, <<8691, 14142, 4113, 1724>>>>
    @@  <<1, -73, <<11117, 16352, 1550, 1682>>>> :> <<1, -63, <<11989, 11649, 855, 1856>>>>
    @@  <<1, -73, <<3205, 3480, 1318, 1683>>>> :> <<1, -63, <<3676, 2784, 9765, 1856>>>>
    @@  <<1, -73, <<5226, 7440, 1100, 1684>>>> :> <<1, -63, <<4131, 5012, 2296, 1857>>>>
    @@  <<1, -73, <<12918, 1171, 15583, 1867>>>> :> <<1, -63, <<4490, 8000, 14825, 1955>>>>
    @@  <<1, -73, <<9234, 15888, 965, 1868>>>> :> <<1, -63, <<6717, 8550, 15750, 1955>>>>
    @@  <<1, -73, <<12861, 10742, 2735, 1868>>>> :> <<1, -63, <<11583, 16189, 292, 1956>>>>
    @@  <<1, -73, <<5408, 555, 16008, 1957>>>> :> <<1, -63, <<15798, 11832, 7908, 2002>>>>
    @@  <<1, -73, <<5260, 11997, 1476, 1959>>>> :> <<1, -63, <<6948, 170, 849, 2003>>>>
    @@  <<1, -73, <<436, 3393, 3351, 1960>>>> :> <<1, -63, <<6718, 12771, 10181, 2003>>>>
    @@  <<1, -72, <<6761, 8904, 14863, 1076>>>> :> <<1, -62, <<3795, 8947, 1973, 1050>>>>
    @@  <<1, -72, <<9383, 15858, 10082, 1077>>>> :> <<1, -62, <<7047, 295, 7630, 1050>>>>
    @@  <<1, -72, <<1154, 2654, 5315, 1078>>>> :> <<1, -62, <<11352, 13982, 13290, 1050>>>>
    @@  <<1, -72, <<14673, 13799, 8395, 1128>>>> :> <<1, -62, <<10421, 10574, 16168, 1074>>>>
    @@  <<1, -72, <<4083, 11746, 4263, 1129>>>> :> <<1, -62, <<11712, 1013, 5619, 1075>>>>
    @@  <<1, -72, <<12355, 13058, 145, 1130>>>> :> <<1, -62, <<584, 5050, 11458, 1075>>>>
    @@  <<1, -72, <<12919, 2180, 2692, 1251>>>> :> <<1, -62, <<7721, 14217, 14706, 1131>>>>
    @@  <<1, -72, <<11757, 3488, 15571, 1251>>>> :> <<1, -62, <<419, 10595, 4147, 1132>>>>
    @@  <<1, -72, <<14388, 15804, 12075, 1252>>>> :> <<1, -62, <<4255, 15883, 9974, 1132>>>>
    @@  <<1, -72, <<7084, 14396, 5702, 1340>>>> :> <<1, -62, <<6157, 8023, 8920, 1171>>>>
    @@  <<1, -72, <<9001, 13100, 12285, 1340>>>> :> <<1, -62, <<13437, 3401, 11797, 1171>>>>
    @@  <<1, -72, <<7720, 4731, 2496, 1341>>>> :> <<1, -62, <<2897, 8990, 14678, 1171>>>>
    @@  <<1, -72, <<13203, 995, 3043, 1465>>>> :> <<1, -62, <<12381, 2862, 14546, 1224>>>>
    @@  <<1, -72, <<15783, 1749, 15493, 1465>>>> :> <<1, -62, <<14575, 9629, 3365, 1225>>>>
    @@  <<1, -72, <<14331, 2564, 11566, 1466>>>> :> <<1, -62, <<13564, 9475, 8570, 1225>>>>
    @@  <<1, -72, <<9773, 9513, 14595, 1484>>>> :> <<1, -62, <<280, 5411, 1589, 1233>>>>
    @@  <<1, -72, <<11987, 10919, 14783, 1484>>>> :> <<1, -62, <<6254, 6981, 1667, 1233>>>>
    @@  <<1, -72, <<8307, 2203, 14972, 1484>>>> :> <<1, -62, <<11556, 11146, 1745, 1233>>>>
    @@  <<1, -72, <<658, 8298, 10026, 1703>>>> :> <<1, -62, <<3591, 7715, 13020, 1320>>>>
    @@  <<1, -72, <<9402, 9938, 13365, 1704>>>> :> <<1, -62, <<7116, 11303, 4280, 1321>>>>
    @@  <<1, -72, <<15438, 9, 337, 1706>>>> :> <<1, -62, <<9416, 8557, 11928, 1321>>>>
    @@  <<1, -72, <<8380, 15089, 4798, 1774>>>> :> <<1, -62, <<15012, 15665, 14997, 1347>>>>
    @@  <<1, -72, <<5749, 13782, 4513, 1775>>>> :> <<1, -62, <<7899, 3554, 4728, 1348>>>>
    @@  <<1, -72, <<11540, 6148, 4238, 1776>>>> :> <<1, -62, <<5161, 7137, 10844, 1348>>>>
    @@  <<1, -72, <<16027, 1806, 7776, 1832>>>> :> <<1, -62, <<14773, 16352, 13716, 1369>>>>
    @@  <<1, -72, <<10288, 1313, 11122, 1903>>>> :> <<1, -62, <<15676, 14903, 3233, 1396>>>>
    @@  <<1, -72, <<4415, 2169, 11666, 1903>>>> :> <<1, -62, <<8041, 6854, 3433, 1396>>>>
    @@  <<1, -72, <<2753, 7106, 12211, 1903>>>> :> <<1, -62, <<3388, 6281, 3633, 1396>>>>
    @@  <<1, -71, <<11853, 2737, 4772, 1282>>>> :> <<1, -62, <<999, 8996, 8759, 1620>>>>
    @@  <<1, -71, <<16242, 2990, 10837, 1282>>>> :> <<1, -62, <<10767, 11411, 12591, 1620>>>>
    @@  <<1, -71, <<11236, 6862, 533, 1283>>>> :> <<1, -62, <<1904, 14846, 48, 1621>>>>
    @@  <<1, -71, <<15140, 5522, 2654, 1396>>>> :> <<1, -62, <<2418, 14978, 15699, 1690>>>>
    @@  <<1, -71, <<9760, 384, 10452, 1397>>>> :> <<1, -62, <<15315, 13789, 13955, 1691>>>>
    @@  <<1, -71, <<14961, 7806, 1901, 1399>>>> :> <<1, -62, <<5599, 11102, 12225, 1692>>>>
    @@  <<1, -70, <<14056, 15281, 8931, 1056>>>> :> <<1, -61, <<15780, 9839, 2380, 1040>>>>
    @@  <<1, -70, <<10421, 1681, 7891, 1057>>>> :> <<1, -61, <<1689, 7097, 9931, 1040>>>>
    @@  <<1, -70, <<14706, 11283, 6893, 1058>>>> :> <<1, -61, <<10361, 4510, 1116, 1041>>>>
    @@  <<1, -70, <<6508, 14647, 15374, 1111>>>> :> <<1, -61, <<11999, 9696, 1043, 1067>>>>
    @@  <<1, -70, <<12683, 13249, 1104, 1113>>>> :> <<1, -61, <<4548, 579, 9917, 1067>>>>
    @@  <<1, -70, <<5741, 6954, 3270, 1114>>>> :> <<1, -61, <<4863, 12481, 2426, 1068>>>>
    @@  <<1, -70, <<1943, 7368, 13451, 1142>>>> :> <<1, -61, <<8876, 2922, 12785, 1081>>>>
    @@  <<1, -70, <<14672, 4219, 16254, 1143>>>> :> <<1, -61, <<2386, 13953, 5479, 1082>>>>
    @@  <<1, -70, <<16184, 15318, 2727, 1145>>>> :> <<1, -61, <<104, 13470, 14579, 1082>>>>
    @@  <<1, -70, <<3714, 10276, 7594, 1188>>>> :> <<1, -61, <<3469, 11483, 2804, 1103>>>>
    @@  <<1, -70, <<13804, 6089, 8592, 1188>>>> :> <<1, -61, <<6066, 12528, 3267, 1103>>>>
    @@  <<1, -70, <<6169, 11811, 9593, 1188>>>> :> <<1, -61, <<7275, 8020, 3732, 1103>>>>
    @@  <<1, -70, <<12976, 11281, 15317, 1222>>>> :> <<1, -61, <<12048, 5933, 910, 1119>>>>
    @@  <<1, -70, <<411, 12196, 1371, 1224>>>> :> <<1, -61, <<8959, 15905, 9519, 1119>>>>
    @@  <<1, -70, <<2516, 6218, 3867, 1225>>>> :> <<1, -61, <<7117, 14086, 1767, 1120>>>>
    @@  <<1, -70, <<1243, 3231, 298, 1934>>>> :> <<1, -61, <<13558, 12710, 4573, 1407>>>>
    @@  <<1, -70, <<4802, 5706, 5321, 1937>>>> :> <<1, -61, <<10698, 8259, 7891, 1408>>>>
    @@  <<1, -70, <<2297, 6114, 10465, 1940>>>> :> <<1, -61, <<15989, 5372, 11236, 1409>>>>
    @@  <<1, -69, <<14432, 8103, 14028, 1195>>>> :> <<1, -61, <<10730, 10972, 15800, 1564>>>>
    @@  <<1, -69, <<4388, 6439, 12425, 1197>>>> :> <<1, -61, <<14899, 10359, 3416, 1566>>>>
    @@  <<1, -69, <<16217, 11703, 10946, 1199>>>> :> <<1, -61, <<515, 11462, 7481, 1567>>>>
    @@  <<1, -69, <<13097, 2378, 2189, 1333>>>> :> <<1, -61, <<7863, 2044, 5720, 1652>>>>
    @@  <<1, -69, <<6882, 4256, 15946, 1333>>>> :> <<1, -61, <<12359, 6445, 14244, 1652>>>>
    @@  <<1, -69, <<12767, 8168, 13389, 1334>>>> :> <<1, -61, <<3009, 6716, 6425, 1653>>>>
    @@  <<1, -56, <<6340, 13679, 11651, 1468>>>> :> <<1, -54, <<5245, 8612, 5907, 1226>>>>
    @@  <<1, -56, <<16265, 11892, 7303, 1480>>>> :> <<1, -54, <<6353, 7703, 4095, 1231>>>>
    @@  <<1, -56, <<5010, 11006, 378, 1486>>>> :> <<1, -54, <<9172, 8980, 9290, 1233>>>>
    @@  <<1, -56, <<8680, 111, 4199, 1486>>>> :> <<1, -54, <<1414, 2306, 10876, 1233>>>>
    @@  <<1, -56, <<13480, 13502, 5980, 1487>>>> :> <<1, -54, <<2998, 16121, 2029, 1234>>>>
    @@  <<1, -56, <<12023, 10200, 7181, 1487>>>> :> <<1, -54, <<5937, 2492, 2528, 1234>>>>
    @@  <<1, -56, <<11058, 13132, 3570, 1494>>>> :> <<1, -54, <<9925, 2100, 15789, 1236>>>>
    @@  <<1, -56, <<6674, 4376, 13252, 1496>>>> :> <<1, -54, <<15293, 1036, 584, 1238>>>>
    @@  <<1, -56, <<14219, 15514, 4884, 1523>>>> :> <<1, -54, <<12417, 8719, 15441, 1248>>>>
    @@  <<1, -56, <<11242, 15743, 10496, 1536>>>> :> <<1, -54, <<13413, 2814, 6558, 1254>>>>
    @@  <<1, -56, <<3836, 894, 2044, 1542>>>> :> <<1, -54, <<13334, 6824, 10431, 1256>>>>
    @@  <<1, -56, <<10346, 6898, 7800, 1542>>>> :> <<1, -54, <<6040, 10459, 12776, 1256>>>>
    @@  <<1, -56, <<10902, 13629, 9374, 1543>>>> :> <<1, -54, <<3360, 6927, 3707, 1257>>>>
    @@  <<1, -56, <<3359, 8679, 12674, 1544>>>> :> <<1, -54, <<2496, 15810, 11721, 1257>>>>
    @@  <<1, -56, <<16004, 14269, 4713, 1551>>>> :> <<1, -54, <<3822, 9904, 5971, 1260>>>>
    @@  <<1, -56, <<7592, 1406, 3188, 1553>>>> :> <<1, -54, <<16086, 4663, 2275, 1261>>>>
    @@  <<1, -56, <<11928, 14469, 7709, 1594>>>> :> <<1, -54, <<12073, 16231, 12882, 1277>>>>
    @@  <<1, -56, <<15623, 13607, 293, 1610>>>> :> <<1, -54, <<15343, 1393, 15, 1284>>>>
    @@  <<1, -56, <<16372, 8580, 7848, 1615>>>> :> <<1, -54, <<15205, 3902, 2895, 1286>>>>
    @@  <<1, -56, <<13350, 10106, 16094, 1615>>>> :> <<1, -54, <<3275, 9494, 6177, 1286>>>>
    @@  <<1, -56, <<3678, 696, 1331, 1617>>>> :> <<1, -54, <<7052, 7045, 13342, 1286>>>>
    @@  <<1, -56, <<2314, 197, 11405, 1619>>>> :> <<1, -54, <<7199, 9570, 13997, 1287>>>>
    @@  <<1, -56, <<12036, 6572, 16291, 1625>>>> :> <<1, -54, <<924, 3303, 5830, 1290>>>>
    @@  <<1, -56, <<7935, 12049, 1425, 1627>>>> :> <<1, -54, <<10511, 7728, 12932, 1290>>>>
    @@  <<1, -55, <<10113, 6755, 3780, 1413>>>> :> <<1, -54, <<6478, 10389, 4312, 1701>>>>
    @@  <<1, -55, <<10114, 6755, 3780, 1413>>>> :> <<1, -54, <<6479, 10389, 4312, 1701>>>>
    @@  <<1, -55, <<6814, 3544, 2713, 1417>>>> :> <<1, -54, <<14137, 13114, 10321, 1703>>>>
    @@  <<1, -55, <<6815, 3544, 2713, 1417>>>> :> <<1, -54, <<14137, 13114, 10321, 1703>>>>
    @@  <<1, -55, <<15455, 12747, 8255, 1420>>>> :> <<1, -54, <<4564, 11385, 10409, 1705>>>>
    @@  <<1, -55, <<15456, 12747, 8255, 1420>>>> :> <<1, -54, <<4565, 11385, 10409, 1705>>>>
    @@  <<1, -55, <<3369, 12641, 5353, 1421>>>> :> <<1, -54, <<7144, 9998, 2118, 1706>>>>
    @@  <<1, -55, <<3370, 12641, 5353, 1421>>>> :> <<1, -54, <<7144, 9998, 2118, 1706>>>>
    @@  <<1, -55, <<11139, 1289, 7394, 1421>>>> :> <<1, -54, <<9385, 2511, 3343, 1706>>>>
    @@  <<1, -55, <<11140, 1289, 7394, 1421>>>> :> <<1, -54, <<9386, 2511, 3343, 1706>>>>
    @@  <<1, -55, <<5590, 2532, 7813, 1423>>>> :> <<1, -54, <<8258, 11585, 6869, 1707>>>>
    @@  <<1, -55, <<5591, 2532, 7813, 1423>>>> :> <<1, -54, <<8259, 11585, 6869, 1707>>>>
    @@  <<1, -55, <<15659, 727, 3058, 1426>>>> :> <<1, -54, <<9414, 7198, 715, 1709>>>>
    @@  <<1, -55, <<15660, 727, 3058, 1426>>>> :> <<1, -54, <<9414, 7198, 715, 1709>>>>
    @@  <<1, -55, <<1499, 4155, 8875, 1431>>>> :> <<1, -54, <<7597, 4812, 4083, 1712>>>>
    @@  <<1, -55, <<1500, 4155, 8875, 1431>>>> :> <<1, -54, <<7598, 4812, 4083, 1712>>>>
    @@  <<1, -54, <<3532, 6912, 14683, 1343>>>> :> <<1, -53, <<5891, 5901, 1541, 1173>>>>
    @@  <<1, -54, <<3909, 14194, 324, 1345>>>> :> <<1, -53, <<6651, 8715, 9574, 1173>>>>
    @@  <<1, -54, <<5140, 10458, 15616, 1346>>>> :> <<1, -53, <<16363, 12579, 7004, 1174>>>>
    @@  <<1, -54, <<11432, 14759, 2594, 1347>>>> :> <<1, -53, <<14601, 8423, 8470, 1174>>>>
    @@  <<1, -54, <<11303, 504, 2716, 1347>>>> :> <<1, -53, <<2770, 5202, 8523, 1174>>>>
    @@  <<1, -54, <<9704, 14058, 4080, 1347>>>> :> <<1, -53, <<4722, 4382, 9118, 1174>>>>
    @@  <<1, -54, <<9293, 8978, 8192, 1347>>>> :> <<1, -53, <<11661, 8314, 10910, 1174>>>>
    @@  <<1, -54, <<6, 5579, 4299, 1351>>>> :> <<1, -53, <<2046, 15351, 4991, 1176>>>>
    @@  <<1, -54, <<4006, 5590, 5850, 1553>>>> :> <<1, -53, <<13090, 1389, 3356, 1261>>>>
    @@  <<1, -54, <<16320, 6320, 14445, 1554>>>> :> <<1, -53, <<1608, 1904, 13494, 1261>>>>
    @@  <<1, -54, <<4914, 9812, 10424, 1559>>>> :> <<1, -53, <<471, 8610, 12310, 1263>>>>
    @@  <<1, -54, <<13786, 13430, 3629, 1560>>>> :> <<1, -53, <<2201, 2730, 16195, 1263>>>>
    @@  <<1, -54, <<3835, 3231, 214, 1561>>>> :> <<1, -53, <<11837, 9209, 5063, 1264>>>>
    @@  <<1, -54, <<12525, 2464, 3912, 1561>>>> :> <<1, -53, <<15593, 768, 6561, 1264>>>>
    @@  <<1, -54, <<9282, 1511, 3500, 1565>>>> :> <<1, -53, <<3303, 4045, 147, 1266>>>>
    @@  <<1, -54, <<9121, 11033, 8153, 1574>>>> :> <<1, -53, <<5376, 8687, 12420, 1269>>>>
    @@  <<1, -54, <<3801, 2784, 14298, 1614>>>> :> <<1, -53, <<11648, 3423, 15324, 1285>>>>
    @@  <<1, -54, <<1039, 1703, 7337, 1617>>>> :> <<1, -53, <<3750, 16336, 15731, 1286>>>>
    @@  <<1, -54, <<2306, 14595, 7131, 1618>>>> :> <<1, -53, <<860, 8686, 5783, 1287>>>>
    @@  <<1, -54, <<2708, 3977, 8679, 1619>>>> :> <<1, -53, <<2355, 14715, 12913, 1287>>>>
    @@  <<1, -54, <<4054, 15715, 13340, 1619>>>> :> <<1, -53, <<14093, 3705, 14767, 1287>>>>
    @@  <<1, -54, <<5198, 914, 41, 1620>>>> :> <<1, -53, <<16077, 4272, 15993, 1287>>>>
    @@  <<1, -54, <<6450, 12092, 15861, 1620>>>> :> <<1, -53, <<15565, 6671, 5897, 1288>>>>
    @@  <<1, -54, <<11262, 10315, 2900, 1623>>>> :> <<1, -53, <<9952, 15282, 3890, 1289>>>>
    @@  <<1, -54, <<6265, 10610, 15949, 1762>>>> :> <<1, -53, <<4052, 1249, 9976, 1343>>>>
    @@  <<1, -54, <<6266, 10610, 15949, 1762>>>> :> <<1, -53, <<4052, 1249, 9976, 1343>>>>
    @@  <<1, -54, <<2322, 3170, 7365, 1972>>>> :> <<1, -53, <<14852, 1432, 3155, 1421>>>>
    @@  <<1, -54, <<14158, 8257, 6726, 1976>>>> :> <<1, -53, <<10877, 5238, 10139, 1422>>>>
    @@  <<1, -54, <<7242, 5222, 9368, 1977>>>> :> <<1, -53, <<14186, 11434, 601, 1423>>>>
    @@  <<1, -54, <<11265, 3435, 2448, 1979>>>> :> <<1, -53, <<13930, 12428, 9899, 1423>>>>
    @@  <<1, -54, <<10512, 4237, 12856, 1979>>>> :> <<1, -53, <<6170, 11771, 13642, 1423>>>>
    @@  <<1, -54, <<3916, 5387, 13234, 1979>>>> :> <<1, -53, <<3596, 10967, 13778, 1423>>>>
    @@  <<1, -54, <<8419, 15957, 3162, 1981>>>> :> <<1, -53, <<16320, 12207, 5554, 1424>>>>
    @@  <<1, -54, <<1433, 15421, 5032, 1983>>>> :> <<1, -53, <<9581, 9197, 1618, 1425>>>>
    @@  <<1, -54, <<15280, 1792, 8864, 1992>>>> :> <<1, -53, <<9880, 14579, 6756, 1428>>>>
    @@  <<1, -54, <<11930, 5177, 11191, 1995>>>> :> <<1, -53, <<9475, 13482, 8817, 1429>>>>
    @@  <<1, -54, <<13326, 7091, 13062, 1995>>>> :> <<1, -53, <<15539, 15860, 9487, 1429>>>>
    @@  <<1, -54, <<11046, 9235, 3181, 1996>>>> :> <<1, -53, <<778, 15262, 11816, 1429>>>>
    @@  <<1, -54, <<14425, 6135, 7068, 1996>>>> :> <<1, -53, <<13959, 13153, 13208, 1429>>>>
    @@  <<1, -54, <<14490, 2794, 9371, 1996>>>> :> <<1, -53, <<404, 6516, 14033, 1429>>>>
    @@  <<1, -54, <<1087, 2701, 8221, 1998>>>> :> <<1, -53, <<10085, 6024, 8968, 1430>>>>
    @@  <<1, -54, <<7359, 149, 5824, 2000>>>> :> <<1, -53, <<5457, 11862, 3451, 1431>>>>
    @@  <<1, -54, <<10565, 8698, 4308, 2028>>>> :> <<1, -53, <<8746, 8810, 2616, 1441>>>>
    @@  <<1, -54, <<10569, 8698, 4308, 2028>>>> :> <<1, -53, <<8748, 8810, 2616, 1441>>>>
    @@  <<1, -54, <<16382, 16383, 16383, 2047>>>> :> <<1, -53, <<15308, 6652, 2534, 1448>>>>
    @@  <<1, -54, <<16383, 16383, 16383, 2047>>>> :> <<1, -53, <<15308, 6652, 2534, 1448>>>>
    @@  <<1, -53, <<1, 0, 0, 1024>>>> :> <<1, -53, <<15309, 6652, 2534, 1448>>>>
    @@  <<1, -53, <<13762, 11678, 15818, 1033>>>> :> <<1, -53, <<3442, 8633, 3019, 1455>>>>
    @@  <<1, -53, <<13764, 11678, 15818, 1033>>>> :> <<1, -53, <<3444, 8633, 3019, 1455>>>>
    @@  <<1, -53, <<13251, 2886, 8409, 1166>>>> :> <<1, -53, <<7223, 4740, 10571, 1545>>>>
    @@  <<1, -53, <<2561, 11226, 6741, 1236>>>> :> <<1, -53, <<7755, 11217, 4580, 1591>>>>
    @@  <<1, -53, <<13158, 2145, 8453, 1237>>>> :> <<1, -53, <<8514, 10428, 16222, 1591>>>>
    @@  <<1, -53, <<13785, 7734, 16363, 1237>>>> :> <<1, -53, <<4327, 3775, 4926, 1592>>>>
    @@  <<1, -53, <<6165, 8526, 1521, 1238>>>> :> <<1, -53, <<5756, 14656, 5917, 1592>>>>
    @@  <<1, -53, <<6840, 6203, 3852, 1238>>>> :> <<1, -53, <<2367, 12401, 7416, 1592>>>>
    @@  <<1, -53, <<7040, 894, 12818, 1238>>>> :> <<1, -53, <<11325, 5696, 13181, 1592>>>>
    @@  <<1, -53, <<7672, 7340, 4523, 1239>>>> :> <<1, -53, <<2781, 7035, 1997, 1593>>>>
    @@  <<1, -53, <<14485, 14991, 9234, 1240>>>> :> <<1, -53, <<5693, 4871, 15553, 1593>>>>
    @@  <<1, -53, <<1037, 5981, 13323, 1497>>>> :> <<1, -53, <<7791, 5895, 7112, 1751>>>>
    @@  <<1, -53, <<15366, 10755, 423, 1499>>>> :> <<1, -53, <<3824, 4571, 2342, 1752>>>>
    @@  <<1, -53, <<182, 11647, 10435, 1500>>>> :> <<1, -53, <<13501, 11605, 1380, 1753>>>>
    @@  <<1, -53, <<832, 11811, 16215, 1500>>>> :> <<1, -53, <<13686, 11324, 4756, 1753>>>>
    @@  <<1, -53, <<12978, 15749, 16231, 1500>>>> :> <<1, -53, <<595, 2889, 4766, 1753>>>>
    @@  <<1, -53, <<12364, 8325, 4915, 1501>>>> :> <<1, -53, <<15894, 11419, 7725, 1753>>>>
    @@  <<1, -53, <<9319, 4434, 12895, 1502>>>> :> <<1, -53, <<11516, 3807, 5566, 1754>>>>
    @@  <<1, -53, <<10782, 6620, 7634, 1505>>>> :> <<1, -53, <<14518, 14370, 14789, 1755>>>>
    @@  <<1, -53, <<3808, 13220, 15385, 1549>>>> :> <<1, -53, <<9923, 11771, 10642, 1781>>>>
    @@  <<1, -53, <<12994, 5181, 10282, 1554>>>> :> <<1, -53, <<1525, 8782, 5607, 1784>>>>
    @@  <<1, -53, <<12877, 1948, 340, 1555>>>> :> <<1, -53, <<9064, 2130, 9304, 1784>>>>
    @@  <<1, -53, <<7536, 10455, 4853, 1555>>>> :> <<1, -53, <<4608, 14917, 11893, 1784>>>>
    @@  <<1, -53, <<14774, 13074, 6342, 1555>>>> :> <<1, -53, <<8882, 5156, 12748, 1784>>>>
    @@  <<1, -53, <<11636, 6965, 12623, 1556>>>> :> <<1, -53, <<3143, 751, 9365, 1785>>>>
    @@  <<1, -53, <<253, 13165, 12674, 1557>>>> :> <<1, -53, <<14812, 16129, 2404, 1786>>>>
    @@  <<1, -53, <<3757, 15226, 15319, 1557>>>> :> <<1, -53, <<14405, 6534, 3921, 1786>>>>
    @@  <<1, -53, <<3721, 3057, 1877, 1690>>>> :> <<1, -53, <<10522, 325, 7727, 1860>>>>
    @@  <<1, -53, <<180, 8010, 7427, 1691>>>> :> <<1, -53, <<10670, 3733, 3413, 1861>>>>
    @@  <<1, -53, <<14986, 11654, 2142, 1692>>>> :> <<1, -53, <<11341, 3099, 9519, 1861>>>>
    @@  <<1, -53, <<9504, 7869, 10439, 1692>>>> :> <<1, -53, <<1733, 10684, 14082, 1861>>>>
    @@  <<1, -53, <<11445, 9127, 10949, 1692>>>> :> <<1, -53, <<13800, 3060, 14363, 1861>>>>
    @@  <<1, -53, <<231, 909, 14320, 1692>>>> :> <<1, -53, <<1639, 13867, 16216, 1861>>>>
    @@  <<1, -53, <<14680, 11401, 11609, 1693>>>> :> <<1, -53, <<4176, 11942, 7351, 1862>>>>
    @@  <<1, -53, <<1567, 14695, 11342, 1694>>>> :> <<1, -53, <<6016, 14779, 16211, 1862>>>>
    @@  <<1, -53, <<3146, 8016, 13937, 1853>>>> :> <<1, -53, <<5011, 11077, 8334, 1948>>>>
    @@  <<1, -53, <<4144, 12552, 1458, 1854>>>> :> <<1, -53, <<11155, 15576, 10386, 1948>>>>
    @@  <<1, -53, <<1628, 11203, 14799, 1854>>>> :> <<1, -53, <<6722, 12852, 1012, 1949>>>>
    @@  <<1, -53, <<4782, 2392, 876, 1855>>>> :> <<1, -53, <<11289, 7181, 2305, 1949>>>>
    @@  <<1, -53, <<10996, 15521, 3120, 1855>>>> :> <<1, -53, <<15865, 12201, 3484, 1949>>>>
    @@  <<1, -53, <<3617, 8080, 3840, 1855>>>> :> <<1, -53, <<7914, 12270, 3862, 1949>>>>
    @@  <<1, -53, <<643, 14416, 15071, 1855>>>> :> <<1, -53, <<2640, 7116, 9762, 1949>>>>
    @@  <<1, -53, <<10512, 6252, 9629, 1857>>>> :> <<1, -53, <<3771, 9464, 7727, 1950>>>>
    @@  <<1, -53, <<11036, 6167, 10694, 1885>>>> :> <<1, -53, <<3130, 1340, 2467, 1965>>>>
    @@  <<1, -52, <<0, 0, 0, 1024>>>> :> <<1, -52, <<0, 0, 0, 1024>>>>
    @@  <<1, -52, <<1, 0, 0, 1024>>>> :> <<1, -52, <<0, 0, 0, 1024>>>>
    @@  <<1, -52, <<16215, 14107, 652, 1058>>>> :> <<1, -52, <<12246, 12188, 14430, 1040>>>>
    @@  <<1, -52, <<2376, 694, 7029, 1058>>>> :> <<1, -52, <<12498, 13802, 1182, 1041>>>>
    @@  <<1, -52, <<14789, 8387, 12398, 1058>>>> :> <<1, -52, <<15342, 5681, 3823, 1041>>>>
    @@  <<1, -52, <<6366, 485, 14589, 1058>>>> :> <<1, -52, <<2310, 7276, 4900, 1041>>>>
    @@  <<1, -52, <<11870, 8362, 15227, 1058>>>> :> <<1, -52, <<4716, 6194, 5214, 1041>>>>
    @@  <<1, -52, <<14577, 9743, 16023, 1058>>>> :> <<1, -52, <<4265, 13039, 5605, 1041>>>>
    @@  <<1, -52, <<10761, 7900, 517, 1059>>>> :> <<1, -52, <<14342, 6948, 6037, 1041>>>>
    @@  <<1, -52, <<10097, 9911, 12107, 1059>>>> :> <<1, -52, <<3056, 14436, 11734, 1041>>>>
    @@  <<1, -52, <<10577, 5970, 5564, 1085>>>> :> <<1, -52, <<14079, 6036, 3666, 1054>>>>
    @@  <<1, -52, <<7188, 2389, 5705, 1158>>>> :> <<1, -52, <<1000, 13514, 1711, 1089>>>>
    @@  <<1, -52, <<3461, 3068, 7965, 1158>>>> :> <<1, -52, <<15437, 4317, 2774, 1089>>>>
    @@  <<1, -52, <<1628, 10482, 8420, 1158>>>> :> <<1, -52, <<4693, 5943, 2988, 1089>>>>
    @@  <<1, -52, <<1826, 11351, 2462, 1159>>>> :> <<1, -52, <<8342, 12149, 7888, 1089>>>>
    @@  <<1, -52, <<9302, 9240, 3413, 1159>>>> :> <<1, -52, <<5282, 9769, 8335, 1089>>>>
    @@  <<1, -52, <<2974, 7202, 4651, 1159>>>> :> <<1, -52, <<9193, 5075, 8917, 1089>>>>
    @@  <<1, -52, <<10537, 1270, 7218, 1159>>>> :> <<1, -52, <<9653, 6336, 10123, 1089>>>>
    @@  <<1, -52, <<2755, 5017, 3531, 1160>>>> :> <<1, -52, <<2442, 11215, 16088, 1089>>>>
    @@  <<1, -52, <<0, 0, 0, 1536>>>> :> <<1, -52, <<8494, 4132, 2273, 1254>>>>)

asin_table ==
    (   <<0, 0, <<>>>> :> <<0, 0, <<>>>>
    @@  <<1, -66, <<13022, 14780, 6608, 1980>>>> :> <<1, -66, <<5702, 16015, 6608, 1980>>>>
    @@  <<1, -66, <<1561, 2609, 7154, 1980>>>> :> <<1, -66, <<11645, 3843, 7154, 1980>>>>
    @@  <<1, -66, <<7512, 6980, 7699, 1980>>>> :> <<1, -66, <<2231, 8215, 7699, 1980>>>>
    @@  <<1, -65, <<1773, 5076, 13284, 1268>>>> :> <<1, -65, <<12781, 6374, 13284, 1268>>>>
    @@  <<1, -65, <<6540, 8743, 13833, 1268>>>> :> <<1, -65, <<2851, 10042, 13833, 1268>>>>
    @@  <<1, -65, <<15055, 14231, 14382, 1268>>>> :> <<1, -65, <<13053, 15530, 14382, 1268>>>>
    @@  <<1, -65, <<15348, 6494, 4734, 1332>>>> :> <<1, -65, <<7195, 7998, 4734, 1332>>>>
    @@  <<1, -65, <<2491, 3046, 4951, 1332>>>> :> <<1, -65, <<11456, 4549, 4951, 1332>>>>
    @@  <<1, -65, <<12780, 497, 5168, 1332>>>> :> <<1, -65, <<6095, 2001, 5168, 1332>>>>
    @@  <<1, -63, <<6, 1773, 5207, 1624>>>> :> <<1, -63, <<8673, 12600, 5209, 1624>>>>
    @@  <<1, -63, <<10449, 15486, 5736, 1624>>>> :> <<1, -63, <<12626, 9932, 5739, 1624>>>>
    @@  <<1, -63, <<4312, 7665, 6267, 1624>>>> :> <<1, -63, <<56, 2114, 6270, 1624>>>>
    @@  <<1, -63, <<7127, 5246, 556, 1724>>>> :> <<1, -63, <<14317, 8221, 559, 1724>>>>
    @@  <<1, -63, <<14874, 15549, 2333, 1724>>>> :> <<1, -63, <<3094, 2151, 2337, 1724>>>>
    @@  <<1, -63, <<8691, 14142, 4113, 1724>>>> :> <<1, -63, <<10937, 753, 4117, 1724>>>>
    @@  <<1, -63, <<11989, 11649, 855, 1856>>>> :> <<1, -63, <<9481, 11156, 859, 1856>>>>
    @@  <<1, -63, <<3676, 2784, 9765, 1856>>>> :> <<1, -63, <<4215, 2348, 9769, 1856>>>>
    @@  <<1, -63, <<4131, 5012, 2296, 1857>>>> :> <<1, -63, <<8863, 4633, 2300, 1857>>>>
    @@  <<1, -63, <<4490, 8000, 14825, 1955>>>> :> <<1, -63, <<9994, 2195, 14830, 1955>>>>
    @@  <<1, -63, <<6717, 8550, 15750, 1955>>>> :> <<1, -63, <<5531, 2752, 15755, 1955>>>>
    @@  <<1, -63, <<11583, 16189, 292, 1956>>>> :> <<1, -63, <<3880, 10398, 297, 1956>>>>
    @@  <<1, -63, <<15798, 11832, 7908, 2002>>>> :> <<1, -63, <<10611, 11596, 7913, 2002>>>>
    @@  <<1, -63, <<6948, 170, 849, 2003>>>> :> <<1, -63, <<12637, 3, 854, 2003>>>>
    @@  <<1, -63, <<6718, 12771, 10181, 2003>>>> :> <<1, -63, <<8586, 12674, 10186, 2003>>>>
    @@  <<1, -62, <<3795, 8947, 1973, 1050>>>> :> <<1, -62, <<5699, 6915, 1976, 1050>>>>
    @@  <<1, -62, <<7047, 295, 7630, 1050>>>> :> <<1, -62, <<591, 14694, 7632, 1050>>>>
    @@  <<1, -62, <<11352, 13982, 13290, 1050>>>> :> <<1, -62, <<14008, 12043, 13293, 1050>>>>
    @@  <<1, -62, <<10421, 10574, 16168, 1074>>>> :> <<1, -62, <<16302, 11969, 16171, 1074>>>>
    @@  <<1, -62, <<11712, 1013, 5619, 1075>>>> :> <<1, -62, <<5309, 2459, 5622, 1075>>>>
    @@  <<1, -62, <<584, 5050, 11458, 1075>>>> :> <<1, -62, <<15892, 6545, 11461, 1075>>>>
    @@  <<1, -62, <<7721, 14217, 14706, 1131>>>> :> <<1, -62, <<6815, 7689, 14710, 1131>>>>
    @@  <<1, -62, <<419, 10595, 4147, 1132>>>> :> <<1, -62, <<9649, 4122, 4151, 1132>>>>
    @@  <<1, -62, <<4255, 15883, 9974, 1132>>>> :> <<1, -62, <<8208, 9466, 9978, 1132>>>>
    @@  <<1, -62, <<6157, 8023, 8920, 1171>>>> :> <<1, -62, <<10424, 7915, 8924, 1171>>>>
    @@  <<1, -62, <<13437, 3401, 11797, 1171>>>> :> <<1, -62, <<8232, 3323, 11801, 1171>>>>
    @@  <<1, -62, <<2897, 8990, 14678, 1171>>>> :> <<1, -62, <<5523, 8941, 14682, 1171>>>>
    @@  <<1, -62, <<12381, 2862, 14546, 1224>>>> :> <<1, -62, <<7789, 12105, 14550, 1224>>>>
    @@  <<1, -62, <<14575, 9629, 3365, 1225>>>> :> <<1, -62, <<12955, 2546, 3370, 1225>>>>
    @@  <<1, -62, <<13564, 9475, 8570, 1225>>>> :> <<1, -62, <<15699, 2450, 8575, 1225>>>>
    @@  <<1, -62, <<280, 5411, 1589, 1233>>>> :> <<1, -62, <<5462, 16167, 1593, 1233>>>>
    @@  <<1, -62, <<6254, 6981, 1667, 1233>>>> :> <<1, -62, <<9548, 1354, 1672, 1233>>>>
    @@  <<1, -62, <<11556, 11146, 1745, 1233>>>> :> <<1, -62, <<12991, 5520, 1750, 1233>>>>
    @@  <<1, -62, <<3591, 7715, 13020, 1320>>>> :> <<1, -62, <<5829, 3166, 13026, 1320>>>>
    @@  <<1, -62, <<7116, 11303, 4280, 1321>>>> :> <<1, -62, <<15762, 6853, 4286, 1321>>>>
    @@  <<1, -62, <<9416, 8557, 11928, 1321>>>> :> <<1, -62, <<10008, 4207, 11934, 1321>>>>
    @@  <<1, -62, <<15012, 15665, 14997, 1347>>>> :> <<1, -62, <<13995, 627, 15004, 1347>>>>
    @@  <<1, -62, <<7899, 3554, 4728, 1348>>>> :> <<1, -62, <<3449, 4983, 4734, 1348>>>>
    @@  <<1, -62, <<5161, 7137, 10844, 1348>>>> :> <<1, -62, <<14847, 8648, 10850, 1348>>>>
    @@  <<1, -62, <<14773, 16352, 13716, 1369>>>> :> <<1, -62, <<5120, 6256, 13723, 1369>>>>
    @@  <<1, -62, <<15676, 14903, 3233, 1396>>>> :> <<1, -62, <<5798, 10962, 3240, 1396>>>>
    @@  <<1, -62, <<8041, 6854, 3433, 1396>>>> :> <<1, -62, <<12871, 2915, 3440, 1396>>>>
    @@  <<1, -62, <<3388, 6281, 3633, 1396>>>> :> <<1, -62, <<6651, 2345, 3640, 1396>>>>
    @@  <<1, -62, <<999, 8996, 8759, 1620>>>> :> <<1, -62, <<11451, 1938, 8770, 1620>>>>
    @@  <<1, -62, <<10767, 11411, 12591, 1620>>>> :> <<1, -62, <<4697, 4429, 12602, 1620>>>>
    @@  <<1, -62, <<1904, 14846, 48, 1621>>>> :> <<1, -62, <<15341, 7938, 59, 1621>>>>
    @@  <<1, -62, <<2418, 14978, 15699, 1690>>>> :> <<1, -62, <<266, 15108, 15711, 1690>>>>
    @@  <<1, -62, <<15315, 13789, 13955, 1691>>>> :> <<1, -62, <<13993, 14231, 13967, 1691>>>>
    @@  <<1, -62, <<5599, 11102, 12225, 1692>>>> :> <<1, -62, <<15376, 11856, 12237, 1692>>>>
    @@  <<1, -61, <<15780, 9839, 2380, 1040>>>> :> <<1, -61, <<6035, 12776, 2391, 1040>>>>
    @@  <<1, -61, <<1689, 7097, 9931, 1040>>>> :> <<1, -61, <<1309, 10277, 9942, 1040>>>>
    @@  <<1, -61, <<10361, 4510, 1116, 1041>>>> :> <<1, -61, <<16030, 7934, 1127, 1041>>>>
    @@  <<1, -61, <<11999, 9696, 1043, 1067>>>> :> <<1, -61, <<10142, 10840, 1055, 1067>>>>
    @@  <<1, -61, <<4548, 579, 9917, 1067>>>> :> <<1, -61, <<6988, 2024, 9929, 1067>>>>
    @@  <<1, -61, <<4863, 12481, 2426, 1068>>>> :> <<1, -61, <<11526, 14228, 2438, 1068>>>>
    @@  <<1, -61, <<8876, 2922, 12785, 1081>>>> :> <<1, -61, <<13455, 12361, 12797, 1081>>>>
    @@  <<1, -61, <<2386, 13953, 5479, 1082>>>> :> <<1, -61, <<3560, 7325, 5492, 1082>>>>
    @@  <<1, -61, <<104, 13470, 14579, 1082>>>> :> <<1, -61, <<15386, 7159, 14592, 1082>>>>
    @@  <<1, -61, <<3469, 11483, 2804, 1103>>>> :> <<1, -61, <<12599, 620, 2818, 1103>>>>
    @@  <<1, -61, <<6066, 12528, 3267, 1103>>>> :> <<1, -61, <<11843, 1682, 3281, 1103>>>>
    @@  <<1, -61, <<7275, 8020, 3732, 1103>>>> :> <<1, -61, <<10700, 13575, 3745, 1103>>>>
    @@  <<1, -61, <<12048, 5933, 910, 1119>>>> :> <<1, -61, <<14586, 4646, 924, 1119>>>>
    @@  <<1, -61, <<8959, 15905, 9519, 1119>>>> :> <<1, -61, <<2835, 14940, 9533, 1119>>>>
    @@  <<1, -61, <<7117, 14086, 1767, 1120>>>> :> <<1, -61, <<10927, 13443, 1781, 1120>>>>
    @@  <<1, -61, <<13558, 12710, 4573, 1407>>>> :> <<1, -61, <<9011, 7577, 4601, 1407>>>>
    @@  <<1, -61, <<10698, 8259, 7891, 1408>>>> :> <<1, -61, <<3313, 4290, 7919, 1408>>>>
    @@  <<1, -61, <<15989, 5372, 11236, 1409>>>> :> <<1, -61, <<15492, 2570, 11264, 1409>>>>
    @@  <<1, -61, <<10730, 10972, 15800, 1564>>>> :> <<1, -61, <<4880, 12207, 15838, 1564>>>>
    @@  <<1, -61, <<14899, 10359, 3416, 1566>>>> :> <<1, -61, <<9109, 13083, 3454, 1566>>>>
    @@  <<1, -61, <<515, 11462, 7481, 1567>>>> :> <<1, -61, <<13374, 15681, 7519, 1567>>>>
    @@  <<1, -61, <<7863, 2044, 5720, 1652>>>> :> <<1, -61, <<2471, 15419, 5764, 1652>>>>
    @@  <<1, -61, <<12359, 6445, 14244, 1652>>>> :> <<1, -61, <<4124, 4130, 14289, 1652>>>>
    @@  <<1, -61, <<3009, 6716, 6425, 1653>>>> :> <<1, -61, <<4328, 5098, 6470, 1653>>>>
    @@  <<1, -54, <<5245, 8612, 5907, 1226>>>> :> <<1, -54, <<7426, 7908, 7604, 1245>>>>
    @@  <<1, -54, <<6353, 7703, 4095, 1231>>>> :> <<1, -54, <<2747, 7683, 9660, 1250>>>>
    @@  <<1, -54, <<9172, 8980, 9290, 1233>>>> :> <<1, -54, <<7117, 2766, 316, 1253>>>>
    @@  <<1, -54, <<1414, 2306, 10876, 1233>>>> :> <<1, -54, <<14576, 15849, 1978, 1253>>>>
    @@  <<1, -54, <<2998, 16121, 2029, 1234>>>> :> <<1, -54, <<3748, 368, 9884, 1253>>>>
    @@  <<1, -54, <<5937, 2492, 2528, 1234>>>> :> <<1, -54, <<12134, 7694, 10406, 1253>>>>
    @@  <<1, -54, <<9925, 2100, 15789, 1236>>>> :> <<1, -54, <<519, 4775, 9532, 1256>>>>
    @@  <<1, -54, <<15293, 1036, 584, 1238>>>> :> <<1, -54, <<6606, 3288, 11572, 1257>>>>
    @@  <<1, -54, <<12417, 8719, 15441, 1248>>>> :> <<1, -54, <<524, 5205, 2513, 1269>>>>
    @@  <<1, -54, <<13413, 2814, 6558, 1254>>>> :> <<1, -54, <<4841, 4534, 14506, 1274>>>>
    @@  <<1, -54, <<13334, 6824, 10431, 1256>>>> :> <<1, -54, <<2735, 8359, 3848, 1277>>>>
    @@  <<1, -54, <<6040, 10459, 12776, 1256>>>> :> <<1, -54, <<12259, 9416, 6312, 1277>>>>
    @@  <<1, -54, <<3360, 6927, 3707, 1257>>>> :> <<1, -54, <<419, 3586, 13998, 1277>>>>
    @@  <<1, -54, <<2496, 15810, 11721, 1257>>>> :> <<1, -54, <<7430, 6953, 6035, 1278>>>>
    @@  <<1, -54, <<3822, 9904, 5971, 1260>>>> :> <<1, -54, <<3470, 3607, 2493, 1281>>>>
    @@  <<1, -54, <<16086, 4663, 2275, 1261>>>> :> <<1, -54, <<4784, 5037, 15828, 1281>>>>
    @@  <<1, -54, <<12073, 16231, 12882, 1277>>>> :> <<1, -54, <<14954, 1367, 7794, 1299>>>>
    @@  <<1, -54, <<15343, 1393, 15, 1284>>>> :> <<1, -54, <<10721, 8633, 302, 1306>>>>
    @@  <<1, -54, <<15205, 3902, 2895, 1286>>>> :> <<1, -54, <<14541, 5527, 5078, 1308>>>>
    @@  <<1, -54, <<3275, 9494, 6177, 1286>>>> :> <<1, -54, <<671, 9378, 8535, 1308>>>>
    @@  <<1, -54, <<7052, 7045, 13342, 1286>>>> :> <<1, -54, <<11421, 6454, 16082, 1308>>>>
    @@  <<1, -54, <<7199, 9570, 13997, 1287>>>> :> <<1, -54, <<6879, 1054, 1263, 1310>>>>
    @@  <<1, -54, <<924, 3303, 5830, 1290>>>> :> <<1, -54, <<15426, 14336, 11673, 1312>>>>
    @@  <<1, -54, <<10511, 7728, 12932, 1290>>>> :> <<1, -54, <<8347, 5183, 2773, 1313>>>>
    @@  <<1, -54, <<6478, 10389, 4312, 1701>>>> :> <<1, -54, <<7211, 14498, 6850, 1754>>>>
    @@  <<1, -54, <<6479, 10389, 4312, 1701>>>> :> <<1, -54, <<7213, 14498, 6850, 1754>>>>
    @@  <<1, -54, <<14137, 13114, 10321, 1703>>>> :> <<1, -54, <<2280, 2228, 333, 1757>>>>
    @@  <<1, -54, <<4564, 11385, 10409, 1705>>>> :> <<1, -54, <<9128, 13681, 3698, 1759>>>>
    @@  <<1, -54, <<4565, 11385, 10409, 1705>>>> :> <<1, -54, <<9129, 13681, 3698, 1759>>>>
    @@  <<1, -54, <<7144, 9998, 2118, 1706>>>> :> <<1, -54, <<14400, 8058, 12600, 1759>>>>
    @@  <<1, -54, <<9385, 2511, 3343, 1706>>>> :> <<1, -54, <<10778, 7423, 13947, 1759>>>>
    @@  <<1, -54, <<9386, 2511, 3343, 1706>>>> :> <<1, -54, <<10779, 7423, 13947, 1759>>>>
    @@  <<1, -54, <<8258, 11585, 6869, 1707>>>> :> <<1, -54, <<8875, 3505, 3082, 1761>>>>
    @@  <<1, -54, <<8259, 11585, 6869, 1707>>>> :> <<1, -54, <<8876, 3505, 3082, 1761>>>>
    @@  <<1, -54, <<9414, 7198, 715, 1709>>>> :> <<1, -54, <<4228, 16053, 15979, 1762>>>>
    @@  <<1, -54, <<7597, 4812, 4083, 1712>>>> :> <<1, -54, <<15501, 3040, 8246, 1766>>>>
    @@  <<1, -54, <<7598, 4812, 4083, 1712>>>> :> <<1, -54, <<15502, 3040, 8246, 1766>>>>
    @@  <<1, -53, <<5891, 5901, 1541, 1173>>>> :> <<1, -53, <<16228, 8046, 1819, 1249>>>>
    @@  <<1, -53, <<6651, 8715, 9574, 1173>>>> :> <<1, -53, <<13391, 11213, 11620, 1249>>>>
    @@  <<1, -53, <<16363, 12579, 7004, 1174>>>> :> <<1, -53, <<1139, 16057, 12095, 1250>>>>
    @@  <<1, -53, <<14601, 8423, 8470, 1174>>>> :> <<1, -53, <<825, 2743, 13885, 1250>>>>
    @@  <<1, -53, <<2770, 5202, 8523, 1174>>>> :> <<1, -53, <<16033, 10222, 13949, 1250>>>>
    @@  <<1, -53, <<4722, 4382, 9118, 1174>>>> :> <<1, -53, <<14990, 14408, 14675, 1250>>>>
    @@  <<1, -53, <<11661, 8314, 10910, 1174>>>> :> <<1, -53, <<15144, 12018, 479, 1251>>>>
    @@  <<1, -53, <<2046, 15351, 4991, 1176>>>> :> <<1, -53, <<11971, 13141, 499, 1253>>>>
    @@  <<1, -53, <<13090, 1389, 3356, 1261>>>> :> <<1, -53, <<13095, 11224, 11534, 1358>>>>
    @@  <<1, -53, <<1608, 1904, 13494, 1261>>>> :> <<1, -53, <<6979, 292, 8020, 1359>>>>
    @@  <<1, -53, <<471, 8610, 12310, 1263>>>> :> <<1, -53, <<11962, 6730, 15370, 1361>>>>
    @@  <<1, -53, <<2201, 2730, 16195, 1263>>>> :> <<1, -53, <<8643, 4316, 3923, 1362>>>>
    @@  <<1, -53, <<11837, 9209, 5063, 1264>>>> :> <<1, -53, <<6194, 4141, 10599, 1362>>>>
    @@  <<1, -53, <<15593, 768, 6561, 1264>>>> :> <<1, -53, <<11249, 13146, 12502, 1362>>>>
    @@  <<1, -53, <<3303, 4045, 147, 1266>>>> :> <<1, -53, <<1972, 3515, 13249, 1364>>>>
    @@  <<1, -53, <<5376, 8687, 12420, 1269>>>> :> <<1, -53, <<10100, 10728, 9545, 1369>>>>
    @@  <<1, -53, <<11648, 3423, 15324, 1285>>>> :> <<1, -53, <<11258, 6206, 4653, 1390>>>>
    @@  <<1, -53, <<3750, 16336, 15731, 1286>>>> :> <<1, -53, <<8935, 952, 9850, 1391>>>>
    @@  <<1, -53, <<860, 8686, 5783, 1287>>>> :> <<1, -53, <<10014, 15217, 1739, 1392>>>>
    @@  <<1, -53, <<2355, 14715, 12913, 1287>>>> :> <<1, -53, <<10008, 704, 10909, 1392>>>>
    @@  <<1, -53, <<14093, 3705, 14767, 1287>>>> :> <<1, -53, <<7222, 10068, 13292, 1392>>>>
    @@  <<1, -53, <<16077, 4272, 15993, 1287>>>> :> <<1, -53, <<6035, 8144, 14869, 1392>>>>
    @@  <<1, -53, <<15565, 6671, 5897, 1288>>>> :> <<1, -53, <<15647, 524, 6574, 1393>>>>
    @@  <<1, -53, <<9952, 15282, 3890, 1289>>>> :> <<1, -53, <<13844, 16152, 8689, 1394>>>>
    @@  <<1, -53, <<4052, 1249, 9976, 1343>>>> :> <<1, -53, <<6513, 16359, 8487, 1465>>>>
    @@  <<1, -53, <<14852, 1432, 3155, 1421>>>> :> <<1, -53, <<14932, 6589, 11659, 1570>>>>
    @@  <<1, -53, <<10877, 5238, 10139, 1422>>>> :> <<1, -53, <<236, 320, 11361, 1572>>>>
    @@  <<1, -53, <<14186, 11434, 601, 1423>>>> :> <<1, -53, <<8227, 10653, 4495, 1573>>>>
    @@  <<1, -53, <<13930, 12428, 9899, 1423>>>> :> <<1, -53, <<12499, 1214, 1043, 1574>>>>
    @@  <<1, -53, <<6170, 11771, 13642, 1423>>>> :> <<1, -53, <<10591, 242, 6250, 1574>>>>
    @@  <<1, -53, <<3596, 10967, 13778, 1423>>>> :> <<1, -53, <<5663, 2536, 6439, 1574>>>>
    @@  <<1, -53, <<16320, 12207, 5554, 1424>>>> :> <<1, -53, <<986, 10590, 1409, 1575>>>>
    @@  <<1, -53, <<9581, 9197, 1618, 1425>>>> :> <<1, -53, <<10282, 9223, 2353, 1576>>>>
    @@  <<1, -53, <<9880, 14579, 6756, 1428>>>> :> <<1, -53, <<1459, 12735, 12493, 1580>>>>
    @@  <<1, -53, <<9475, 13482, 8817, 1429>>>> :> <<1, -53, <<3414, 4884, 5474, 1582>>>>
    @@  <<1, -53, <<15539, 15860, 9487, 1429>>>> :> <<1, -53, <<1807, 2642, 6410, 1582>>>>
    @@  <<1, -53, <<778, 15262, 11816, 1429>>>> :> <<1, -53, <<9609, 12705, 9662, 1582>>>>
    @@  <<1, -53, <<13959, 13153, 13208, 1429>>>> :> <<1, -53, <<903, 13109, 11606, 1582>>>>
    @@  <<1, -53, <<404, 6516, 14033, 1429>>>> :> <<1, -53, <<7245, 9213, 12758, 1582>>>>
    @@  <<1, -53, <<10085, 6024, 8968, 1430>>>> :> <<1, -53, <<15446, 5920, 12188, 1583>>>>
    @@  <<1, -53, <<5457, 11862, 3451, 1431>>>> :> <<1, -53, <<1967, 926, 10994, 1584>>>>
    @@  <<1, -53, <<8746, 8810, 2616, 1441>>>> :> <<1, -53, <<10387, 478, 10269, 1598>>>>
    @@  <<1, -53, <<8748, 8810, 2616, 1441>>>> :> <<1, -53, <<10390, 478, 10269, 1598>>>>
    @@  <<1, -53, <<15308, 6652, 2534, 1448>>>> :> <<1, -53, <<11543, 4368, 8117, 1608>>>>
    @@  <<1, -53, <<15309, 6652, 2534, 1448>>>> :> <<1, -53, <<11545, 4368, 8117, 1608>>>>
    @@  <<1, -53, <<3442, 8633, 3019, 1455>>>> :> <<1, -53, <<14785, 9123, 7554, 1618>>>>
    @@  <<1, -53, <<3444, 8633, 3019, 1455>>>> :> <<1, -53, <<14787, 9123, 7554, 1618>>>>
    @@  <<1, -53, <<7223, 4740, 10571, 1545>>>> :> <<1, -53, <<192, 8762, 7746, 1751>>>>
    @@  <<1, -53, <<7755, 11217, 4580, 1591>>>> :> <<1, -53, <<9244, 8968, 7544, 1822>>>>
    @@  <<1, -53, <<8514, 10428, 16222, 1591>>>> :> <<1, -53, <<7441, 8212, 9660, 1823>>>>
    @@  <<1, -53, <<4327, 3775, 4926, 1592>>>> :> <<1, -53, <<669, 593, 1365, 1824>>>>
    @@  <<1, -53, <<5756, 14656, 5917, 1592>>>> :> <<1, -53, <<15865, 15052, 2941, 1824>>>>
    @@  <<1, -53, <<2367, 12401, 7416, 1592>>>> :> <<1, -53, <<13082, 8032, 5325, 1824>>>>
    @@  <<1, -53, <<11325, 5696, 13181, 1592>>>> :> <<1, -53, <<13076, 9903, 14494, 1824>>>>
    @@  <<1, -53, <<2781, 7035, 1997, 1593>>>> :> <<1, -53, <<14152, 7784, 6384, 1825>>>>
    @@  <<1, -53, <<5693, 4871, 15553, 1593>>>> :> <<1, -53, <<11833, 2530, 11581, 1826>>>>
    @@  <<1, -53, <<7791, 5895, 7112, 1751>>>> :> <<1, -52, <<4594, 15370, 8914, 1050>>>>
    @@  <<1, -53, <<3824, 4571, 2342, 1752>>>> :> <<1, -52, <<1377, 12228, 3740, 1051>>>>
    @@  <<1, -53, <<13501, 11605, 1380, 1753>>>> :> <<1, -52, <<4052, 11554, 2261, 1052>>>>
    @@  <<1, -53, <<13686, 11324, 4756, 1753>>>> :> <<1, -52, <<4184, 5552, 5527, 1052>>>>
    @@  <<1, -53, <<595, 2889, 4766, 1753>>>> :> <<1, -52, <<2185, 8445, 5536, 1052>>>>
    @@  <<1, -53, <<15894, 11419, 7725, 1753>>>> :> <<1, -52, <<9973, 2762, 8400, 1052>>>>
    @@  <<1, -53, <<11516, 3807, 5566, 1754>>>> :> <<1, -52, <<2656, 4080, 5791, 1053>>>>
    @@  <<1, -53, <<14518, 14370, 14789, 1755>>>> :> <<1, -52, <<9647, 3557, 14253, 1054>>>>
    @@  <<1, -53, <<9923, 11771, 10642, 1781>>>> :> <<1, -52, <<10164, 13371, 6802, 1080>>>>
    @@  <<1, -53, <<1525, 8782, 5607, 1784>>>> :> <<1, -52, <<9761, 7433, 2486, 1083>>>>
    @@  <<1, -53, <<9064, 2130, 9304, 1784>>>> :> <<1, -52, <<7649, 15324, 6252, 1083>>>>
    @@  <<1, -53, <<4608, 14917, 11893, 1784>>>> :> <<1, -52, <<13743, 9385, 8892, 1083>>>>
    @@  <<1, -53, <<8882, 5156, 12748, 1784>>>> :> <<1, -52, <<5775, 9626, 9763, 1083>>>>
    @@  <<1, -53, <<3143, 751, 9365, 1785>>>> :> <<1, -52, <<15379, 16282, 6642, 1084>>>>
    @@  <<1, -53, <<14812, 16129, 2404, 1786>>>> :> <<1, -52, <<11072, 340, 16269, 1084>>>>
    @@  <<1, -53, <<14405, 6534, 3921, 1786>>>> :> <<1, -52, <<5006, 14303, 1434, 1085>>>>
    @@  <<1, -53, <<10522, 325, 7727, 1860>>>> :> <<1, -52, <<7669, 11800, 14247, 1166>>>>
    @@  <<1, -53, <<10670, 3733, 3413, 1861>>>> :> <<1, -52, <<6391, 4451, 12314, 1167>>>>
    @@  <<1, -53, <<11341, 3099, 9519, 1861>>>> :> <<1, -52, <<5229, 11684, 3250, 1168>>>>
    @@  <<1, -53, <<1733, 10684, 14082, 1861>>>> :> <<1, -52, <<12946, 6608, 8726, 1168>>>>
    @@  <<1, -53, <<13800, 3060, 14363, 1861>>>> :> <<1, -52, <<16136, 2353, 9063, 1168>>>>
    @@  <<1, -53, <<1639, 13867, 16216, 1861>>>> :> <<1, -52, <<5165, 9140, 11288, 1168>>>>
    @@  <<1, -53, <<4176, 11942, 7351, 1862>>>> :> <<1, -52, <<10974, 16099, 3937, 1169>>>>
    @@  <<1, -53, <<6016, 14779, 16211, 1862>>>> :> <<1, -52, <<1549, 8936, 14596, 1169>>>>
    @@  <<1, -53, <<5011, 11077, 8334, 1948>>>> :> <<1, -52, <<6252, 3109, 64, 1288>>>>
    @@  <<1, -53, <<11155, 15576, 10386, 1948>>>> :> <<1, -52, <<14773, 15754, 3397, 1288>>>>
    @@  <<1, -53, <<6722, 12852, 1012, 1949>>>> :> <<1, -52, <<5591, 6726, 14800, 1288>>>>
    @@  <<1, -53, <<11289, 7181, 2305, 1949>>>> :> <<1, -52, <<3248, 11664, 521, 1289>>>>
    @@  <<1, -53, <<15865, 12201, 3484, 1949>>>> :> <<1, -52, <<8480, 2014, 2443, 1289>>>>
    @@  <<1, -53, <<7914, 12270, 3862, 1949>>>> :> <<1, -52, <<14957, 2278, 3059, 1289>>>>
    @@  <<1, -53, <<2640, 7116, 9762, 1949>>>> :> <<1, -52, <<2142, 11427, 12682, 1289>>>>
    @@  <<1, -53, <<3771, 9464, 7727, 1950>>>> :> <<1, -52, <<7319, 15355, 3392, 1291>>>>
    @@  <<1, -53, <<3130, 1340, 2467, 1965>>>> :> <<1, -52, <<7229, 1806, 3853, 1316>>>>
    @@  <<1, -52, <<0, 0, 0, 1024>>>> :> <<1, -52, <<11544, 4368, 8117, 1608>>>>)


\* math.pi / 180, the factor of math.radians
deg_to_rad == <<1, -58, <<7481, 2378, 13418, 1143>>>>

\* line 190: 6371.0
earth_radius_km == <<1, -40, <<0, 0, 12288, 1592>>>>

\* 1.0
One == <<1, -52, <<0, 0, 0, 1024>>>>

\* math.radians(x) is x * (pi / 180)
radians(x) == float_mul(x, deg_to_rad)

\* x ** 2 is the rounded product x * x
squared(x) == float_mul(x, x)

\* line 186 with cos(lat1_rad) twice
haversine_one_latitude(lat1_rad, lon1_rad, lat2_rad, lon2_rad) ==
    LET dlat == float_sub(lat2_rad, lat1_rad)
        dlon == float_sub(lon2_rad, lon1_rad)
    IN  float_add(squared(sin_table[float_half(dlat)]),
                  float_mul(float_mul(cos_table[lat1_rad],
                                      cos_table[lat1_rad]),
                            squared(sin_table[float_half(dlon)])))

\* lines 182-186: a
haversine(lat1_rad, lon1_rad, lat2_rad, lon2_rad) ==
    LET dlat == float_sub(lat2_rad, lat1_rad)
        dlon == float_sub(lon2_rad, lon1_rad)
    IN  float_add(squared(sin_table[float_half(dlat)]),
                  float_mul(float_mul(cos_table[lat1_rad],
                                      cos_table[lat2_rad]),
                            squared(sin_table[float_half(dlon)])))

\* lines 176-186: a for four arguments in units of 1/FloatUnit, double_of
\* giving the floats the caller passes
haversine_of(lat1, lon1, lat2, lon2) ==
    haversine(radians(double_of(lat1)), radians(double_of(lon1)),
              radians(double_of(lat2)), radians(double_of(lon2)))

\* line 187: math.sqrt raises ValueError (math domain error) below zero and
\* math.asin above one
central_angle_raises(a) ==
    a[1] < 0 \/ float_less(One, sqrt_table[a])

\* lines 187-192, when line 187 does not raise: the float returned
distance_km(a) ==
    float_mul(earth_radius_km, float_twice(asin_table[sqrt_table[a]]))

calculate_distance_raises(lat1, lon1, lat2, lon2) ==
    central_angle_raises(haversine_of(lat1, lon1, lat2, lon2))

calculate_distance(lat1, lon1, lat2, lon2) ==
    distance_km(haversine_of(lat1, lon1, lat2, lon2))

\* <<latitude, longitude>> in units of 1/FloatUnit: the places of the trips
\* of the model and the borough centers
CityPoints ==
    {<<407679, -739822>>, <<407656, -739646>>, <<409176, -739822>>,
     <<407831, -739712>>, <<406782, -739442>>, <<407282, -737949>>,
     <<408448, -738648>>, <<405795, -741502>>}

\* the calls of calculate_distance the feature engineer makes in the model,
\* each evaluated once: the float returned, or nothing when the call raises
city_distance ==
    [p \in {a \o b : a, b \in CityPoints} |->
        IF calculate_distance_raises(p[1], p[2], p[3], p[4]) THEN <<>>
        ELSE <<calculate_distance(p[1], p[2], p[3], p[4])>>]

\* the sign of calculate_percentiles(values, [p])[p] - v in float arithmetic
\* when the two values interpolated between are both float(text) = v and
\* len(values) = n: the weights (1 - weight) and weight do not always add v
\* back; <<p, n, text>> is absent when the result is v
percentile_drift ==
    (  <<10, 2, "1.504">> :> 1
    @@ <<10, 3, "11.90">> :> 1
    @@ <<10, 3, "27.07">> :> 1
    @@ <<10, 8, "11.90">> :> 1
    @@ <<90, 3, "90.24">> :> -1)

Drift(p, n, text) ==
    IF <<p, n, text>> \in DOMAIN percentile_drift
    THEN percentile_drift[<<p, n, text>>] ELSE 0

\* self.stats of __init__
ZeroFeatureStats ==
    [records_processed |-> 0, features_created |-> 0,
     distance_calculations |-> 0, time_features |-> 0,
     efficiency_metrics |-> 0]

\* self.borough_centers, in dict order
borough_centers ==
    << <<"Manhattan", 407831, -739712>>, <<"Brooklyn", 406782, -739442>>,
       <<"Queens", 407282, -737949>>, <<"Bronx", 408448, -738648>>,
       <<"Staten Island", 405795, -741502>> >>

\* record.update(fields)
Update(record, fields) ==
    [f \in DOMAIN record \cup DOMAIN fields |->
        IF f \in DOMAIN fields THEN fields[f] ELSE record[f]]

\* csv.DictReader on one row: the fields under the names of the header, None
\* for the names the row has no field for (no row of the model is longer
\* than its header)
DictRow(header, row) ==
    [c \in Range(header) |->
        LET i == CHOOSE i \in 1..Len(header) : header[i] = c
        IN  IF i <= Len(row) THEN row[i] ELSE None]

\* lines 69-77: one dict per row that is not empty
_load_cleaned_data(file) ==
    LET rows == SelectSeq(file.rows, LAMBDA row : Len(row) > 0)
    IN  [j \in 1..Len(rows) |-> DictRow(file.header, rows[j])]

\* float(record[field]): no KeyError, TypeError or ValueError
ItemFloatOk(record, field) ==
    field \in DOMAIN record /\ record[field] \in DOMAIN float_table

\* lines 88-91
coordinates_parse(record) ==
    /\ ItemFloatOk(record, "pickup_latitude")
    /\ ItemFloatOk(record, "pickup_longitude")
    /\ ItemFloatOk(record, "dropoff_latitude")
    /\ ItemFloatOk(record, "dropoff_longitude")

\* lines 87-96: no conversion and no call raises
distance_known(record) ==
    /\ coordinates_parse(record)
    /\ city_distance[<<float_table[record.pickup_latitude],
                       float_table[record.pickup_longitude],
                       float_table[record.dropoff_latitude],
                       float_table[record.dropoff_longitude]>>] # <<>>

\* lines 98-103: the text for what the call of lines 93-95 did
distance_text(call) ==
    IF call = <<>> THEN "0.000" ELSE Fixed(Thousandths(call[1]), 3)

\* lines 87-103: the value of trip_distance_km
trip_distance_km(record) ==
    IF coordinates_parse(record)
    THEN distance_text(
             city_distance[<<float_table[record.pickup_latitude],
                             float_table[record.pickup_longitude],
                             float_table[record.dropoff_latitude],
                             float_table[record.dropoff_longitude]>>])
    ELSE "0.000"

\* lines 117-118, 200-202, 324-326: the floats of the derived and the raw
\* field parse
trip_floats_parse(record) ==
    /\ FieldFloatOk(record, "trip_distance_km")
    /\ FieldFloatOk(record, "trip_duration")

\* float(record.get('trip_duration', 0)) in seconds, and whether it is > 0
Seconds(record) == FieldFloat(record, "trip_duration") \div FloatUnit

duration_positive(record) ==
    \/ FieldFloat(record, "trip_duration") > 0
    \/ Get(record, "trip_duration", "0") \in float_underflow

\* lines 122-123: duration_hours is 0.0 and the division raises
\* ZeroDivisionError, which line 131 does not catch
speed_raises(record) ==
    /\ trip_floats_parse(record)
    /\ Get(record, "trip_duration", "0") \in float_underflow

\* lines 116-132: the value of trip_speed_kmh, in km/h:
\* distance / (seconds / 3600)
trip_speed_kmh(record) ==
    IF trip_floats_parse(record) /\ duration_positive(record)
    THEN Fixed(Rounded("trip_speed_kmh",
                       FieldFloat(record, "trip_distance_km") * 36,
                       Seconds(record)), 2)
    ELSE "0.00"

\* the position in the list of the first record on which the loop of
\* _calculate_trip_speed raises, 0 if there is none
first_raising(objs, refs) ==
    IF \E j \in 1..Len(refs) : speed_raises(objs[refs[j]])
    THEN CHOOSE j \in 1..Len(refs) :
            /\ speed_raises(objs[refs[j]])
            /\ \A h \in 1..(j - 1) : ~speed_raises(objs[refs[h]])
    ELSE 0

\* line 145
pickup_parses(record) ==
    /\ "pickup_datetime" \in DOMAIN record
    /\ record.pickup_datetime \in DOMAIN strptime_table

\* pickup_dt.hour, strftime('%A') and pickup_dt.month of a time in seconds
\* since 2016-01-01 00:00:00, a Friday
hour_of(t) == (t % 86400) \div 3600

weekdays ==
    <<"Monday", "Tuesday", "Wednesday", "Thursday", "Friday", "Saturday",
      "Sunday">>

day_of_week_of(t) == weekdays[(((t \div 86400) + 4) % 7) + 1]

month_lengths == <<31, 29, 31, 30, 31, 30, 31, 31, 30, 31, 30, 31>>

RECURSIVE month_from(_, _)
month_from(day, month) ==
    IF day < month_lengths[month] THEN month
    ELSE month_from(day - month_lengths[month], month + 1)

month_of(t) == month_from(t \div 86400, 1)

\* the classification with noon counted as morning
time_period_until_noon(hour) ==
    IF 5 <= hour /\ hour <= 12 THEN "Morning"
    ELSE IF 12 <= hour /\ hour < 17 THEN "Afternoon"
    ELSE IF 17 <= hour /\ hour < 21 THEN "Evening"
    ELSE "Night"

\* lines 152-159
time_period(hour) ==
    IF 5 <= hour /\ hour < 12 THEN "Morning"
    ELSE IF 12 <= hour /\ hour < 17 THEN "Afternoon"
    ELSE IF 17 <= hour /\ hour < 21 THEN "Evening"
    ELSE "Night"

\* 'True' if b else 'False'
TrueFalse(b) == IF b THEN "True" ELSE "False"

\* lines 144-187: the six temporal fields
temporal_features(record) ==
    IF pickup_parses(record)
    THEN LET pickup_dt == strptime_table[record.pickup_datetime]
             hour == hour_of(pickup_dt)
             day_of_week == day_of_week_of(pickup_dt)
             is_weekend == day_of_week \in {"Saturday", "Sunday"}
             is_rush_hour ==
                 /\ (7 <= hour /\ hour <= 9) \/ (17 <= hour /\ hour <= 19)
                 /\ ~is_weekend
         IN  [pickup_hour |-> Str(hour),
              time_of_day |-> time_period(hour),
              day_of_week |-> day_of_week,
              is_weekend |-> TrueFalse(is_weekend),
              pickup_month |-> Str(month_of(pickup_dt)),
              is_rush_hour |-> TrueFalse(is_rush_hour)]
    ELSE [pickup_hour |-> "0", time_of_day |-> "Unknown",
          day_of_week |-> "Unknown", is_weekend |-> "False",
          pickup_month |-> "1", is_rush_hour |-> "False"]

\* lines 200-202
efficiency_floats_parse(record) ==
    /\ trip_floats_parse(record)
    /\ FieldFloatOk(record, "trip_speed_kmh")

\* float(record.get('trip_speed_kmh', 0)) in hundredths of km/h
speed_hundredths(record) ==
    FieldFloat(record, "trip_speed_kmh") \div (FloatUnit \div 100)

\* lines 205-210: km per minute, distance / (seconds / 60)
distance_per_minute(record) ==
    IF duration_positive(record)
    THEN Fixed(Rounded("distance_per_minute",
                       FieldFloat(record, "trip_distance_km") * 60,
                       Seconds(record)), 4)
    ELSE "0.0000"

\* lines 213-218: max(0, seconds - distance / speed * 3600), or
\* str(duration_seconds) of the float
estimated_idle_time(record) ==
    LET speed == speed_hundredths(record)
        moving == 36 * FieldFloat(record, "trip_distance_km")
    IN  IF speed > 0
        THEN IF Seconds(record) * speed - moving <= 0 THEN "0"
             ELSE Fixed(Rounded("estimated_idle_time",
                                Seconds(record) * speed - moving, speed), 0)
        ELSE Str(Seconds(record)) \o ".0"

\* lines 221-226: min(100, speed / 40 * 100)
efficiency_score(record) ==
    LET speed == speed_hundredths(record)
    IN  IF speed > 0
        THEN Fixed(Min(1000, Rounded("efficiency_score", speed, 4)), 1)
        ELSE "0.0"

\* lines 229-235: seconds / (distance / 20 * 3600)
trip_complexity(record) ==
    IF FieldFloat(record, "trip_distance_km") > 0 /\ duration_positive(record)
    THEN Fixed(Rounded("trip_complexity", Seconds(record) * 50000,
                       9 * FieldFloat(record, "trip_distance_km")), 2)
    ELSE "1.00"

\* lines 199-244: the four efficiency fields
efficiency_metrics(record) ==
    IF efficiency_floats_parse(record)
    THEN [distance_per_minute |-> distance_per_minute(record),
          estimated_idle_time |-> estimated_idle_time(record),
          efficiency_score |-> efficiency_score(record),
          trip_complexity |-> trip_complexity(record)]
    ELSE [distance_per_minute |-> "0.0000", estimated_idle_time |-> "0",
          efficiency_score |-> "0.0", trip_complexity |-> "1.00"]

\* float('inf') of line 286, which no distance is equal to
Infinity == <<1, 1024, <<>>>>

\* lines 291-293: <<min_distance, closest_borough>> after a center at
\* distance
closer_of(closest, distance, borough) ==
    IF closest[1] = Infinity \/ float_less(distance, closest[1])
    THEN <<distance, borough>> ELSE closest

\* lines 289-295 from the i-th center on, closest being
\* <<min_distance, closest_borough>>
RECURSIVE closest_from(_, _, _, _)
closest_from(lat, lon, i, closest) ==
    IF i > Len(borough_centers) THEN closest[2]
    ELSE closest_from(lat, lon, i + 1,
                      closer_of(closest,
                                city_distance[<<lat, lon,
                                                borough_centers[i][2],
                                                borough_centers[i][3]>>][1],
                                borough_centers[i][1]))

_find_closest_borough(lat, lon) ==
    closest_from(lat, lon, 1, <<Infinity, "Manhattan">>)

\* lines 256-267: no conversion and no call of line 290 raises, for the
\* pickup or for the dropoff
zones_known(record) ==
    /\ coordinates_parse(record)
    /\ \A place \in {<<float_table[record.pickup_latitude],
                       float_table[record.pickup_longitude]>>,
                     <<float_table[record.dropoff_latitude],
                       float_table[record.dropoff_longitude]>>} :
          \A i \in 1..Len(borough_centers) :
             city_distance[<<place[1], place[2], borough_centers[i][2],
                             borough_centers[i][3]>>] # <<>>

\* lines 269-276: the three zone fields of two boroughs
zones_of(pickup_borough, dropoff_borough) ==
    [pickup_borough |-> pickup_borough,
     dropoff_borough |-> dropoff_borough,
     trip_type |-> IF pickup_borough = dropoff_borough
                   THEN "Intra-borough" ELSE "Inter-borough"]

\* lines 255-280: the three zone fields
trip_zones(record) ==
    IF zones_known(record)
    THEN zones_of(
             _find_closest_borough(float_table[record.pickup_latitude],
                                   float_table[record.pickup_longitude]),
             _find_closest_borough(float_table[record.dropoff_latitude],
                                   float_table[record.dropoff_longitude]))
    ELSE [pickup_borough |-> "Unknown", dropoff_borough |-> "Unknown",
          trip_type |-> "Unknown"]

\* lines 308-314: a record adds to speeds, then to distances, then to
\* durations, until one of its floats does not parse
pattern_speeds(objs, refs) ==
    LET parsed == SelectSeq(refs, LAMBDA i :
                      FieldFloatOk(objs[i], "trip_speed_kmh"))
    IN  [j \in 1..Len(parsed) |-> FieldFloat(objs[parsed[j]], "trip_speed_kmh")]

pattern_distances(objs, refs) ==
    LET parsed == SelectSeq(refs, LAMBDA i :
                      /\ FieldFloatOk(objs[i], "trip_speed_kmh")
                      /\ FieldFloatOk(objs[i], "trip_distance_km"))
    IN  [j \in 1..Len(parsed) |->
            FieldFloat(objs[parsed[j]], "trip_distance_km")]

pattern_durations(objs, refs) ==
    LET parsed == SelectSeq(refs, LAMBDA i : efficiency_floats_parse(objs[i]))
    IN  [j \in 1..Len(parsed) |-> Seconds(objs[parsed[j]])]

\* value < calculate_percentiles(vals, [10, 90])[p] and
\* value > calculate_percentiles(vals, [10, 90])[p] in float arithmetic, for
\* a value of vals read from text
below_percentile(text, value, vals, p) ==
    LET percentile == calculate_percentiles(vals, <<10, 90>>)[p]
    IN  \/ PctScale * value < percentile
        \/ PctScale * value = percentile /\ Drift(p, Len(vals), text) > 0

above_percentile(text, value, vals, p) ==
    LET percentile == calculate_percentiles(vals, <<10, 90>>)[p]
    IN  \/ PctScale * value > percentile
        \/ PctScale * value = percentile /\ Drift(p, Len(vals), text) < 0

\* lines 331-346: the label of a value against the 10th and 90th percentile
percentile_label(text, value, vals, low, high) ==
    IF below_percentile(text, value, vals, 10) THEN <<low>>
    ELSE IF above_percentile(text, value, vals, 90) THEN <<high>>
    ELSE <<>>

\* lines 323-360: the value of trip_patterns
trip_patterns(record, speeds, distances, durations) ==
    IF efficiency_floats_parse(record)
    THEN LET speed == FieldFloat(record, "trip_speed_kmh")
             distance == FieldFloat(record, "trip_distance_km")
             duration == Seconds(record)
             patterns ==
                 percentile_label(Get(record, "trip_speed_kmh", "0"), speed,
                                  speeds, "Slow", "Fast")
                 \o percentile_label(Get(record, "trip_distance_km", "0"),
                                     distance, distances, "Short", "Long")
                 \o percentile_label(Get(record, "trip_duration", "0"),
                                     duration, durations, "Quick", "Extended")
                 \o (IF speed < 5 * FloatUnit THEN <<"Traffic">> ELSE <<>>)
                 \o (IF 2 * distance < FloatUnit THEN <<"Local">> ELSE <<>>)
                 \o (IF duration > 1800 THEN <<"Journey">> ELSE <<>>)
         IN  IF Len(patterns) > 0 THEN JoinWith(patterns, ";") ELSE "Normal"
    ELSE "Unknown"

\* a step that hands on only the records whose duration it could read
enhanced_data_parsed_only(objs, refs) ==
    SelectSeq(refs, LAMBDA i : ItemFloatOk(objs[i], "trip_duration"))

\* `return data` of lines 106, 134, 189, 246, 282 and 362: the list handed
\* to the next step
enhanced_data(objs, refs) == refs

\* the fields the six steps add, in the order they are added
derived_fields ==
    <<"trip_distance_km", "trip_speed_kmh", "pickup_hour", "time_of_day",
      "day_of_week", "is_weekend", "pickup_month", "is_rush_hour",
      "distance_per_minute", "estimated_idle_time", "efficiency_score",
      "trip_complexity", "pickup_borough", "dropoff_borough", "trip_type",
      "trip_patterns">>

\* line 373: the keys of the first dict
all_columns(header) ==
    header \o SelectSeq(derived_fields, LAMBDA f : f \notin Range(header))

\* lines 376-378: the text of a dict under the columns, None written as ''
enhanced_row(record, columns) ==
    [c \in 1..Len(columns) |->
        IF record[columns[c]] = None THEN "" ELSE record[columns[c]]]

-----------------------------------------------------------------------------
(* The files given to the feature engineer: rows in the columns the        *)
(* cleaner writes                                                          *)

Clean1 ==
    Update(Trip1, [calculated_duration |-> "455", outlier_flag |-> "NORMAL"])

CleanLong ==
    [Clean1 EXCEPT !.pickup_datetime = "2016-03-14 17:21:55",
                   !.trip_duration = "3600", !.passenger_count = "8",
                   !.pickup_latitude = "40.9176",
                   !.calculated_duration = "635",
                   !.outlier_flag = "DURATION_OUTLIER"]

\* no displacement
SamePlace ==
    [Clean1 EXCEPT !.dropoff_longitude = "-73.9822",
                   !.dropoff_latitude = "40.7679"]

ZeroDuration == [Clean1 EXCEPT !.trip_duration = "0"]

\* fields that do not parse
NoLatitude == [Clean1 EXCEPT !.pickup_latitude = ""]
NoPickupTime == [Clean1 EXCEPT !.pickup_datetime = "14/03/2016 17:24"]
NoDuration == [Clean1 EXCEPT !.trip_duration = ""]

\* a duration that is positive and less than any number of hours
TinyDuration == [Clean1 EXCEPT !.trip_duration = "5e-324"]
SamePlaceTiny == [SamePlace EXCEPT !.trip_duration = "5e-324"]

\* a Saturday morning from Brooklyn to Queens, over 30 minutes
Weekend ==
    [Clean1 EXCEPT !.id = "id2",
                   !.pickup_datetime = "2016-03-12 08:15:00",
                   !.dropoff_datetime = "2016-03-12 08:45:30",
                   !.pickup_longitude = "-73.9442",
                   !.pickup_latitude = "40.6782",
                   !.dropoff_longitude = "-73.7949",
                   !.dropoff_latitude = "40.7282",
                   !.trip_duration = "1830",
                   !.calculated_duration = "1830"]

\* a Tuesday night, the distance of Trip1 in a minute
Dash ==
    [Clean1 EXCEPT !.id = "id2",
                   !.pickup_datetime = "2016-03-15 23:05:00",
                   !.dropoff_datetime = "2016-03-15 23:06:00",
                   !.trip_duration = "60", !.calculated_duration = "60"]

FeaturePool ==
    {Clean1, CleanLong, SamePlace, ZeroDuration, NoLatitude, NoPickupTime,
     NoDuration, Truncated, TinyDuration, SamePlaceTiny, Weekend, Dash}

FeatureInputFiles ==
    {CsvFile(output_columns, rows) : rows \in SeqsUpTo(FeaturePool, MaxRows)}
    \cup {CsvFile(header, rows) :
             header \in {Without(output_columns, "pickup_latitude"),
                         Without(output_columns, "trip_duration")},
             rows \in SeqsUpTo(FeaturePool, 1)}

-----------------------------------------------------------------------------
(* Specification SpecFeatures: one TaxiFeatureEngineer, constructed on a   *)
(* file, running engineer_features once                                    *)

FeaturesInit ==
    /\ NoGroupArgs /\ NoPoints /\ NoDatabase
    /\ pc = "engineer_constructed"
    /\ raised = "None"
    /\ input_file \in FeatureInputFiles \cup {NoFile}
    /\ raw_data = <<>>
    /\ cleaned_data = <<>>
    /\ stats = ZeroFeatureStats
    /\ output_file = NoFile
    /\ report_file = NoReport
    /\ NoSortArgs /\ NoValueArgs /\ NoHeap
    /\ result = <<>>

\* line 48; open() of a file that does not exist raises FileNotFoundError,
\* which engineer_features does not catch
LoadCleanedData ==
    /\ pc = "engineer_constructed"
    /\ IF ~input_file.exists
       THEN /\ raised' = "FileNotFoundError"
            /\ pc' = "raised"
            /\ UNCHANGED <<raw_data, cleaned_data, stats>>
       ELSE /\ raw_data' = _load_cleaned_data(input_file)
            /\ cleaned_data' = [i \in 1..Len(raw_data') |-> i]
            /\ stats' = Bump(stats, "records_processed", Len(raw_data'))
            /\ pc' = "loaded"
            /\ UNCHANGED raised
    /\ UNCHANGED <<input_file, output_file, report_file, libVars>>

\* line 52
CalculateTripDistance ==
    /\ pc = "loaded"
    /\ raw_data' =
         [i \in 1..Len(raw_data) |->
            IF i \in Range(cleaned_data)
            THEN SetField(raw_data[i], "trip_distance_km",
                          trip_distance_km(raw_data[i]))
            ELSE raw_data[i]]
    /\ LET calculated == Cardinality({j \in 1..Len(cleaned_data) :
                             distance_known(raw_data[cleaned_data[j]])})
       IN  stats' = Bump(Bump(stats, "distance_calculations", calculated),
                         "features_created", calculated)
    /\ cleaned_data' = enhanced_data(raw_data', cleaned_data)
    /\ pc' = "distance_done"
    /\ UNCHANGED <<raised, input_file, output_file, report_file, libVars>>

\* line 53; the loop stops at the first record whose duration makes the
\* division raise, the records before it changed
CalculateTripSpeed ==
    /\ pc = "distance_done"
    /\ LET stop == first_raising(raw_data, cleaned_data)
           done == IF stop = 0 THEN cleaned_data
                   ELSE SubSeq(cleaned_data, 1, stop - 1)
       IN  /\ raw_data' =
                [i \in 1..Len(raw_data) |->
                   IF i \in Range(done)
                   THEN SetField(raw_data[i], "trip_speed_kmh",
                                 trip_speed_kmh(raw_data[i]))
                   ELSE raw_data[i]]
           /\ stats' = Bump(stats, "features_created",
                            Cardinality({j \in 1..Len(done) :
                                trip_floats_parse(raw_data[done[j]])}))
           /\ IF stop = 0
              THEN /\ cleaned_data' = enhanced_data(raw_data', cleaned_data)
                   /\ pc' = "speed_done"
                   /\ UNCHANGED raised
              ELSE /\ raised' = "ZeroDivisionError"
                   /\ pc' = "raised"
                   /\ UNCHANGED cleaned_data
    /\ UNCHANGED <<input_file, output_file, report_file, libVars>>

\* line 54
ExtractTemporalFeatures ==
    /\ pc = "speed_done"
    /\ raw_data' =
         [i \in 1..Len(raw_data) |->
            IF i \in Range(cleaned_data)
            THEN Update(raw_data[i], temporal_features(raw_data[i]))
            ELSE raw_data[i]]
    /\ LET extracted == Cardinality({j \in 1..Len(cleaned_data) :
                            pickup_parses(raw_data[cleaned_data[j]])})
       IN  stats' = Bump(Bump(stats, "time_features", 6 * extracted),
                         "features_created", 6 * extracted)
    /\ cleaned_data' = enhanced_data(raw_data', cleaned_data)
    /\ pc' = "temporal_done"
    /\ UNCHANGED <<raised, input_file, output_file, report_file, libVars>>

\* line 55
CalculateEfficiencyMetrics ==
    /\ pc = "temporal_done"
    /\ raw_data' =
         [i \in 1..Len(raw_data) |->
            IF i \in Range(cleaned_data)
            THEN Update(raw_data[i], efficiency_metrics(raw_data[i]))
            ELSE raw_data[i]]
    /\ LET calculated == Cardinality({j \in 1..Len(cleaned_data) :
                             efficiency_floats_parse(
                                 raw_data[cleaned_data[j]])})
       IN  stats' = Bump(Bump(stats, "efficiency_metrics", 4 * calculated),
                         "features_created", 4 * calculated)
    /\ cleaned_data' = enhanced_data(raw_data', cleaned_data)
    /\ pc' = "efficiency_done"
    /\ UNCHANGED <<raised, input_file, output_file, report_file, libVars>>

\* line 56
ClassifyTripZones ==
    /\ pc = "efficiency_done"
    /\ raw_data' =
         [i \in 1..Len(raw_data) |->
            IF i \in Range(cleaned_data)
            THEN Update(raw_data[i], trip_zones(raw_data[i]))
            ELSE raw_data[i]]
    /\ stats' = Bump(stats, "features_created",
                     3 * Cardinality({j \in 1..Len(cleaned_data) :
                             zones_known(raw_data[cleaned_data[j]])}))
    /\ cleaned_data' = enhanced_data(raw_data', cleaned_data)
    /\ pc' = "zones_done"
    /\ UNCHANGED <<raised, input_file, output_file, report_file, libVars>>

\* line 57
DetectTripPatterns ==
    /\ pc = "zones_done"
    /\ LET speeds == pattern_speeds(raw_data, cleaned_data)
           distances == pattern_distances(raw_data, cleaned_data)
           durations == pattern_durations(raw_data, cleaned_data)
       IN  raw_data' =
             [i \in 1..Len(raw_data) |->
                IF i \in Range(cleaned_data)
                THEN SetField(raw_data[i], "trip_patterns",
                              trip_patterns(raw_data[i], speeds, distances,
                                            durations))
                ELSE raw_data[i]]
    /\ stats' = Bump(stats, "features_created",
                     Cardinality({j \in 1..Len(cleaned_data) :
                         efficiency_floats_parse(raw_data[cleaned_data[j]])}))
    /\ cleaned_data' = enhanced_data(raw_data', cleaned_data)
    /\ pc' = "patterns_done"
    /\ UNCHANGED <<raised, input_file, output_file, report_file, libVars>>

\* line 60; nothing is written when the list is empty
SaveEnhancedData ==
    /\ pc = "patterns_done"
    /\ IF Len(cleaned_data) = 0
       THEN UNCHANGED output_file
       ELSE output_file' =
              [exists |-> TRUE, header |-> all_columns(input_file.header),
               rows |-> [j \in 1..Len(cleaned_data) |->
                           enhanced_row(raw_data[cleaned_data[j]],
                                        all_columns(input_file.header))]]
    /\ pc' = "saved"
    /\ UNCHANGED <<raised, input_file, raw_data, cleaned_data, stats,
                   report_file, libVars>>

\* lines 63-65
GenerateFeatureReport ==
    /\ pc = "saved"
    /\ report_file' = [exists |-> TRUE, stats |-> stats]
    /\ pc' = "features_done"
    /\ UNCHANGED <<raised, input_file, raw_data, cleaned_data, stats,
                   output_file, libVars>>

FeaturesNext ==
    \/ LoadCleanedData
    \/ CalculateTripDistance
    \/ CalculateTripSpeed
    \/ ExtractTemporalFeatures
    \/ CalculateEfficiencyMetrics
    \/ ClassifyTripZones
    \/ DetectTripPatterns
    \/ SaveEnhancedData
    \/ GenerateFeatureReport

SpecFeatures == FeaturesInit /\ [][FeaturesNext]_vars

\* the durations the steps divide by are whole numbers of seconds, or too
\* small for the division
FeatureSeconds ==
    pc \in {"loaded", "distance_done"} =>
        \A i \in Range(cleaned_data) :
            FieldFloatOk(raw_data[i], "trip_duration") =>
                FieldFloat(raw_data[i], "trip_duration") % FloatUnit = 0

\* the six steps of engineer_features have run
SixStepsDone == pc \in {"patterns_done", "saved", "features_done"}

\* C3: feature engineering is pure enrichment: after the six derivation
\* steps the list has the length of the list that was loaded, one record per
\* row of the file, and holds the same records in the same order, each with
\* the fields it was loaded with, also when fields of a record fail to parse.
C3_PureEnrichment ==
    SixStepsDone =>
        /\ Len(cleaned_data) = Len(_load_cleaned_data(input_file))
        /\ Len(raw_data) = Len(_load_cleaned_data(input_file))
        /\ cleaned_data = [j \in 1..Len(raw_data) |-> j]
        /\ \A j \in 1..Len(raw_data) :
              \A c \in Range(input_file.header) :
                  /\ c \in DOMAIN raw_data[j]
                  /\ raw_data[j][c] = _load_cleaned_data(input_file)[j][c]

\* the six steps are over on a list with a record that parsed and records
\* whose coordinates, pickup time and duration did not
C3_Witness ==
    /\ pc = "patterns_done"
    /\ Len(cleaned_data) >= 3
    /\ \E i \in Range(cleaned_data) :
          /\ raw_data[i].trip_patterns \notin {"Unknown"}
          /\ raw_data[i].pickup_borough # "Unknown"
          /\ raw_data[i].time_of_day # "Unknown"
    /\ \E i \in Range(cleaned_data) : raw_data[i].trip_patterns = "Unknown"
    /\ \E i \in Range(cleaned_data) : raw_data[i].pickup_borough = "Unknown"
    /\ \E i \in Range(cleaned_data) : raw_data[i].time_of_day = "Unknown"

\* the record's pickup and dropoff coordinates parse and coincide
ZeroDisplacement(record) ==
    /\ coordinates_parse(record)
    /\ float_table[record.pickup_latitude] = float_table[record.dropoff_latitude]
    /\ float_table[record.pickup_longitude] = float_table[record.dropoff_longitude]

\* the record's trip_duration is the text of a float that is > 0, or is 0
DurationParses(record) ==
    "trip_duration" \in DOMAIN record /\ record.trip_duration \in DOMAIN float_table
PositiveDuration(record) == DurationParses(record) /\ duration_positive(record)
NoDurationAtAll(record) == DurationParses(record) /\ ~duration_positive(record)
                           /\ FieldFloat(record, "trip_duration") = 0

\* the step has been reached by the run, whether the run got through it or
\* stopped in it or before it
DistanceStepOver == pc \notin {"engineer_constructed", "loaded"}
SpeedStepOver == DistanceStepOver /\ pc # "distance_done"
EfficiencyStepOver == SpeedStepOver /\ pc \notin {"speed_done", "temporal_done"}

ZeroValues(record) ==
    /\ (ZeroDisplacement(record) /\ PositiveDuration(record)) =>
          /\ DistanceStepOver => Get(record, "trip_distance_km", None) = "0.000"
          /\ SpeedStepOver => Get(record, "trip_speed_kmh", None) = "0.00"
          /\ EfficiencyStepOver => Get(record, "efficiency_score", None) = "0.0"
    /\ NoDurationAtAll(record) =>
          /\ SpeedStepOver => Get(record, "trip_speed_kmh", None) = "0.00"
          /\ EfficiencyStepOver => Get(record, "efficiency_score", None) = "0.0"

\* C13: feature derivation gives a record with zero displacement and a
\* positive duration the distance 0, the speed 0 and the efficiency score 0,
\* and gives a record of duration 0 the speed 0 and the efficiency score 0,
\* whatever its distance
C13_ZeroValues == \A i \in Range(cleaned_data) : ZeroValues(raw_data[i])

\* the same, on the runs that get through the speed step
ZeroValuesUnlessRaised ==
    pc # "raised" => \A i \in Range(cleaned_data) : ZeroValues(raw_data[i])

\* a run over a record without displacement and a record of duration 0 that
\* got through the efficiency step
ZeroValuesReached ==
    /\ pc = "efficiency_done"
    /\ \E i \in Range(cleaned_data) :
          ZeroDisplacement(raw_data[i]) /\ PositiveDuration(raw_data[i])
    /\ \E i \in Range(cleaned_data) :
          NoDurationAtAll(raw_data[i]) /\ raw_data[i].trip_distance_km # "0.000"

\* C14: feature engineering never raises on a single bad field: whatever
\* field of a record is missing or unparsable, each of the six steps
\* completes, every record ends with a value for each of the sixteen derived
\* fields, with the zero / "Unknown" default where the feature could not be
\* computed, and the run goes on to the next record
C14_NeverRaises ==
    /\ (pc = "raised" => ~input_file.exists)
    /\ SixStepsDone =>
          \A i \in Range(cleaned_data) :
              /\ Range(derived_fields) \subseteq DOMAIN raw_data[i]
              /\ ~coordinates_parse(raw_data[i]) =>
                    /\ raw_data[i].trip_distance_km = "0.000"
                    /\ raw_data[i].pickup_borough = "Unknown"
                    /\ raw_data[i].dropoff_borough = "Unknown"
                    /\ raw_data[i].trip_type = "Unknown"
              /\ ~pickup_parses(raw_data[i]) =>
                    /\ raw_data[i].time_of_day = "Unknown"
                    /\ raw_data[i].day_of_week = "Unknown"
              /\ ~trip_floats_parse(raw_data[i]) =>
                    /\ raw_data[i].trip_speed_kmh = "0.00"
                    /\ raw_data[i].efficiency_score = "0.0"

\* the second conjunct alone: what the runs that do not raise leave behind
DefaultsWhenDone ==
    SixStepsDone =>
        \A i \in Range(cleaned_data) :
            /\ Range(derived_fields) \subseteq DOMAIN raw_data[i]
            /\ ~coordinates_parse(raw_data[i]) => raw_data[i].trip_distance_km = "0.000"
            /\ ~trip_floats_parse(raw_data[i]) => raw_data[i].trip_speed_kmh = "0.00"

-----------------------------------------------------------------------------
(* data_cleaner.py : _detect_outliers on a list given in runs              *)
(*                                                                         *)
(* The sampling branch of _detect_outliers is taken by lists of more than  *)
(* 100000 records.  Such a list is given here in runs: raw_data[i] is the  *)
(* dict that values[i] consecutive records of the list share (the stage    *)
(* reads their trip_duration only), and cleaned_data lists the runs.  A    *)
(* sample is given by the number of records it takes from each run:        *)
(* detect_outliers_iqr sorts the sample, so that its order does not count. *)

\* sorted_values[i] of custom_algorithms.py lines 108-109, i a Python index,
\* where sorted_runs holds the pairs <<value, number of records>> in the
\* order of quick_sort
RECURSIVE value_at(_, _)
value_at(sorted_runs, i) ==
    IF i < sorted_runs[1][2] THEN sorted_runs[1][1]
    ELSE value_at(Tail(sorted_runs), i - sorted_runs[1][2])

sorted_value_of_runs(durs, picked, i) ==
    value_at(quick_sort([j \in 1..Len(durs) |-> <<durs[j], picked[j]>>],
                        key_index, FALSE), i)

\* custom_algorithms.py lines 111-131 for p = 25 and p = 75 on the list that
\* holds picked[j] times the value durs[j], in hundredths
percentile_of_runs(durs, picked, p) ==
    LET n == SumSeq(picked)
        position == p * (n - 1)
        lower_index == position \div PctScale
        upper_index == Min(lower_index + 1, n - 1)
        weight == position - PctScale * lower_index
    IN  interpolate(<<sorted_value_of_runs(durs, picked, lower_index),
                      sorted_value_of_runs(durs, picked, upper_index)>>,
                    0, 1, weight)

\* q1 and q3 of the stats detect_outliers_iqr returns for that list; no
\* stats for fewer than 4 values (custom_algorithms.py lines 141-146)
quartiles_of_runs(durs, picked) ==
    IF SumSeq(picked) < 4 THEN <<>>
    ELSE <<percentile_of_runs(durs, picked, 25),
           percentile_of_runs(durs, picked, 75)>>

\* the ways of taking at most cs[j] and at most size records from run j
RECURSIVE Picks(_, _)
Picks(cs, size) ==
    IF Len(cs) = 0 THEN {<<>>}
    ELSE {<<s>> \o rest : s \in 0..Min(cs[1], size),
                          rest \in Picks(Tail(cs), size)}

\* random.sample(durations, sample_size) on a list in runs: the numbers of
\* records a sample of the given size can take from each run (what it takes
\* from a longest run is the rest of what it takes from the others)
RunSamples(counts, size) ==
    LET n == Len(counts)
        longest == CHOOSE j \in 1..n : \A h \in 1..n : counts[h] <= counts[j]
        others == [j \in 1..(n - 1) |->
                      counts[IF j < longest THEN j ELSE j + 1]]
    IN  IF n = 0 THEN (IF size = 0 THEN {<<>>} ELSE {})
        ELSE {[j \in 1..n |->
                  IF j = longest THEN size - SumSeq(part)
                  ELSE part[IF j < longest THEN j ELSE j - 1]] :
                 part \in {q \in Picks(others, size) :
                              /\ size - SumSeq(q) >= 0
                              /\ size - SumSeq(q) <= counts[longest]}}

\* a stage that never samples
samples_of_runs_whole(counts) == {counts}

\* lines 281-285, and the whole list where no sample is drawn (line 300)
samples_of_runs(counts) ==
    IF SumSeq(counts) > LargeDataset
    THEN RunSamples(counts, Min(SampleSize, SumSeq(counts)))
    ELSE {counts}

\* lines 286-289 and 300: the quartiles the stage can work with
sample_quartiles(durs, counts) ==
    {quartiles_of_runs(durs, picked) : picked \in samples_of_runs(counts)}

\* bounds without the multiple of the inter-quartile range
outlier_runs_in_quartiles(durs, quartiles) ==
    IF quartiles = <<>> THEN {}
    ELSE {i \in 0..Len(durs) - 1 :
             IsOutlier(At(durs, i), PctScale * quartiles[1],
                       PctScale * quartiles[2])}

\* lines 289-297, and custom_algorithms.py lines 148-155 for line 300: the
\* Python indices of the runs whose records are flagged
outlier_runs(durs, quartiles) ==
    IF quartiles = <<>> THEN {}
    ELSE LET q1 == quartiles[1]
             q3 == quartiles[2]
             iqr == q3 - q1
             lower_bound == PctScale * q1 - OutlierMultiplier * iqr
             upper_bound == PctScale * q3 + OutlierMultiplier * iqr
         IN  {i \in 0..Len(durs) - 1 :
                 IsOutlier(At(durs, i), lower_bound, upper_bound)}

\* lines 304-307: the number of records flagged
outliers_in_runs(counts, outlier_indices) ==
    SumSeq([i \in 1..Len(counts) |->
               IF (i - 1) \in outlier_indices THEN counts[i] ELSE 0])

\* the label of a value against the 10th and 90th percentile of vals, the
\* percentiles being the interpolated ranks themselves
LabelAgainst(value, vals, low, high) ==
    IF PctScale * value < InterpolatedRank(vals, 10) THEN <<low>>
    ELSE IF PctScale * value > InterpolatedRank(vals, 90) THEN <<high>>
    ELSE <<>>

\* the labels whose condition holds for a record, in the order Slow/Fast,
\* Short/Long, Quick/Extended, Traffic, Local, Journey
LabelsOf(record, speeds, distances, durations) ==
    LabelAgainst(FieldFloat(record, "trip_speed_kmh"), speeds, "Slow", "Fast")
    \o LabelAgainst(FieldFloat(record, "trip_distance_km"), distances,
                    "Short", "Long")
    \o LabelAgainst(Seconds(record), durations, "Quick", "Extended")
    \o (IF FieldFloat(record, "trip_speed_kmh") < 5 * FloatUnit
        THEN <<"Traffic">> ELSE <<>>)
    \o (IF 2 * FieldFloat(record, "trip_distance_km") < FloatUnit
        THEN <<"Local">> ELSE <<>>)
    \o (IF Seconds(record) > 1800 THEN <<"Journey">> ELSE <<>>)

\* C24: with P10 and P90 of speed, distance and duration taken over the whole
\* enriched set, trip_patterns of a record lists exactly the labels whose
\* condition holds (Slow if speed < P10 else Fast if speed > P90, Short/Long
\* and Quick/Extended likewise, Traffic if speed < 5, Local if distance <
\* 0.5, Journey if duration > 1800) and is 'Normal' exactly when none holds;
\* no record carries both labels of a pair
C24_Patterns ==
    SixStepsDone =>
        \A i \in Range(cleaned_data) :
            efficiency_floats_parse(raw_data[i]) =>
                LET labels == LabelsOf(raw_data[i],
                                  pattern_speeds(raw_data, cleaned_data),
                                  pattern_distances(raw_data, cleaned_data),
                                  pattern_durations(raw_data, cleaned_data))
                IN  raw_data[i].trip_patterns =
                        IF Len(labels) > 0 THEN JoinWith(labels, ";")
                        ELSE "Normal"

\* two records of one distance, 1.504 km: the 10th percentile of the two
\* distances comes out above the distance, and both records are tagged Short
ShortAtThePercentile ==
    /\ pc = "patterns_done"
    /\ Len(cleaned_data) = 2
    /\ \A i \in Range(cleaned_data) :
          /\ efficiency_floats_parse(raw_data[i])
          /\ raw_data[i].trip_distance_km = "1.504"
          /\ PctScale * FieldFloat(raw_data[i], "trip_distance_km") =
                 InterpolatedRank(pattern_distances(raw_data, cleaned_data), 10)
          /\ raw_data[i].trip_patterns = "Short;Traffic"

\* a step keeps every field of every record, and the value of a field unless
\* the value was empty and the field is one of the three with a default
FieldsKept ==
    \A i \in 1..Len(raw_data) :
        /\ i <= Len(raw_data')
        /\ \A f \in DOMAIN raw_data[i] :
              /\ f \in DOMAIN raw_data'[i]
              /\ raw_data'[i][f] # raw_data[i][f] =>
                    /\ raw_data[i][f] \in {"", None}
                    /\ f \in DOMAIN MissingDefaults
                    /\ raw_data'[i][f] = MissingDefaults[f]

\* C26: no stage of the cleaner and no step of the feature engineer removes
\* a field of a record or changes a value that is not empty: the fields of a
\* record only grow, the only rewrite is the default given to an absent or
\* empty field, and a feature or flag once written is not written over
C26_Frame == [][FieldsKept]_vars

\* what the code keeps: the same on a file without a column named like a
\* field the stages write
FrameOnOtherColumns ==
    [][("outlier_flag" \notin Range(input_file.header)) => FieldsKept]_vars

\* the flag the file came with has been written over
FlagWrittenOver ==
    /\ pc = "outliers_flagged"
    /\ "outlier_flag" \in Range(input_file.header)
    /\ input_file.rows[1][Len(input_file.header)] = "DURATION_OUTLIER"
    /\ raw_data[1].outlier_flag = "NORMAL"

-----------------------------------------------------------------------------
(* Specification SpecOutliers: _detect_outliers called on a list in runs   *)

\* the bound of the model: the single records at the end of a short list
MaxShort == 2

RunOf(duration) == [Trip1 EXCEPT !.trip_duration = duration]

\* runs of one record
ShortRuns == {<<"60", 1>>, <<"455", 1>>, <<"3600", 1>>}

\* lists of up to 3 records and of exactly 100000
LongRuns ==
    {<<>>,
     << <<"455", 2>> >>,
     << <<"455", 2>>, <<"1830", 1>> >>,
     << <<"455", 99999>> >>,
     << <<"455", 100000>> >>}

\* lists of 100001 and 100002 records, the long trips making a quarter of
\* the sample size or one more
SampledRuns ==
    {<< <<"455", 87501>>, <<"3600", 12500>> >>,
     << <<"455", 87500>>, <<"3600", 12501>> >>,
     << <<"455", 87500>>, <<"3600", 12501>>, <<"60", 1>> >>}

RunLists ==
    {long \o short : long \in LongRuns, short \in SeqsUpTo(ShortRuns, MaxShort)}
    \cup SampledRuns

OutliersInit ==
    /\ NoGroupArgs /\ NoPoints /\ NoDatabase
    /\ pc = "outliers_called"
    /\ raised = "None"
    /\ \E runs \in RunLists :
          /\ raw_data = [i \in 1..Len(runs) |-> RunOf(runs[i][1])]
          /\ values = [i \in 1..Len(runs) |-> runs[i][2]]
          /\ cleaned_data = [i \in 1..Len(runs) |-> i]
    /\ stats = ZeroStats
    /\ input_file = NoFile
    /\ output_file = NoFile
    /\ report_file = NoReport
    /\ NoSortArgs /\ NoHeap
    /\ percentiles = <<>> /\ multiplier = 0
    /\ result = <<>>

\* _detect_outliers(data), lines 267-315
DetectOutliersInRuns ==
    /\ pc = "outliers_called"
    /\ LET durations == durations_of(raw_data, cleaned_data)
       IN  \E quartiles \in sample_quartiles(durations, values) :
             LET outlier_indices == outlier_runs(durations, quartiles)
             IN  /\ raw_data' = flag_outliers(raw_data, cleaned_data,
                                               outlier_indices)
                 /\ stats' = Bump(stats, "outliers_detected",
                                  outliers_in_runs(values, outlier_indices))
    /\ pc' = "outliers_returned"
    /\ UNCHANGED <<raised, input_file, cleaned_data, output_file, report_file,
                   libVars>>

OutliersNext == DetectOutliersInRuns

SpecOutliers == OutliersInit /\ [][OutliersNext]_vars

\* the stage has just been called and has returned
OutliersStep == pc = "outliers_called" /\ pc' = "outliers_returned"

\* C11: outlier detection is reproducible: a second run over the same list
\* gives every record the outlier_flag it has and adds the same number to
\* outliers_detected, whatever sample either run draws, also for a list of
\* more than 100000 records.
C11_Reproducible ==
    [][OutliersStep =>
        \A quartiles \in
              sample_quartiles(durations_of(raw_data, cleaned_data), values) :
            LET again == outlier_runs(durations_of(raw_data, cleaned_data),
                                      quartiles)
            IN  /\ flag_outliers(raw_data, cleaned_data, again) = raw_data'
                /\ Bump(stats, "outliers_detected",
                        outliers_in_runs(values, again)) = stats']_vars

\* what does hold: the runs over a list of at most 100000 records agree
ReproducibleUnsampled ==
    [][(OutliersStep /\ SumSeq(values) <= LargeDataset) =>
        \A quartiles \in
              sample_quartiles(durations_of(raw_data, cleaned_data), values) :
            flag_outliers(raw_data, cleaned_data,
                outlier_runs(durations_of(raw_data, cleaned_data), quartiles))
              = raw_data']_vars

\* a list of more than 100000 records, all of them found normal, of which
\* another sample makes 12501 outliers
SampleDecides ==
    /\ pc = "outliers_returned"
    /\ SumSeq(values) > LargeDataset
    /\ stats.outliers_detected = 0
    /\ \E picked \in RunSamples(values, SampleSize) :
          outliers_in_runs(values,
              outlier_runs(durations_of(raw_data, cleaned_data),
                  quartiles_of_runs(durations_of(raw_data, cleaned_data),
                                    picked))) = 12501

\* the value of rank i (from 0) of the list that holds sample[j] times the
\* value durs[j], by counting
RunOrderStat(durs, sample, i) ==
    CHOOSE x \in Range(durs) :
        /\ SumSeq([j \in 1..Len(durs) |->
               IF durs[j] < x THEN sample[j] ELSE 0]) <= i
        /\ i < SumSeq([j \in 1..Len(durs) |->
                   IF durs[j] <= x THEN sample[j] ELSE 0])

\* its p-th percentile, in hundredths
RunRank(durs, sample, p) ==
    LET n == SumSeq(sample)
    IN  RunOrderStat(durs, sample, RankLo(n, p)) * (100 - RankW(n, p))
        + RunOrderStat(durs, sample, RankHi(n, p)) * RankW(n, p)

\* the seconds of the trip_duration of the records of each run
RunSeconds == [i \in 1..Len(raw_data) |-> int_table[raw_data[i].trip_duration]]

\* the lists the quartiles may be taken from: the whole list of at most
\* 100000 records, or any 50000 records of a longer one
QuartileSources ==
    IF SumSeq(values) > 100000 THEN RunSamples(values, 50000) ELSE {values}

\* C19: the records flagged DURATION_OUTLIER are exactly those whose duration
\* is below Q1 - 2.0*IQR or above Q3 + 2.0*IQR, the others are flagged
\* NORMAL, and outliers_detected counts the former; Q1 and Q3 are the
\* quartiles of a sample of 50000 durations when the list has more than
\* 100000 records, whether a record is in the sample or not, and of the
\* whole list otherwise.
C19_BoundsApplied ==
    [][(OutliersStep /\ Len(values) > 0) =>
        \E Q \in {<<RunRank(RunSeconds, sample, 25),
                    RunRank(RunSeconds, sample, 75)>> :
                     sample \in QuartileSources} :
            LET Below(i) ==
                    10000 * RunSeconds[i] < 100 * Q[1] - 200 * (Q[2] - Q[1])
                Above(i) ==
                    10000 * RunSeconds[i] > 100 * Q[2] + 200 * (Q[2] - Q[1])
            IN  /\ \A i \in 1..Len(raw_data) :
                      raw_data'[i].outlier_flag =
                          IF Below(i) \/ Above(i) THEN "DURATION_OUTLIER"
                          ELSE "NORMAL"
                /\ stats'.outliers_detected =
                     SumSeq([i \in 1..Len(values) |->
                         IF Below(i) \/ Above(i) THEN values[i] ELSE 0])]_vars

\* a sampled list with records flagged both ways, one of them below the
\* lower bound
C19_Witness ==
    /\ pc = "outliers_returned"
    /\ SumSeq(values) > LargeDataset
    /\ \E i, j, h \in 1..Len(raw_data) :
          /\ raw_data[i].outlier_flag = "DURATION_OUTLIER"
          /\ raw_data[i].trip_duration = "60"
          /\ raw_data[j].outlier_flag = "DURATION_OUTLIER"
          /\ raw_data[j].trip_duration = "3600"
          /\ raw_data[h].outlier_flag = "NORMAL"

-----------------------------------------------------------------------------
(* custom_algorithms.py : custom_group_by                                  *)

\* a Python dict keeps its keys in insertion order: groups is the sequence
\* of its items, <<key_value, list>>
GroupKeys(groups) == [g \in 1..Len(groups) |-> groups[g][1]]

\* groups[key_value].append(record), at the front of the list instead
group_prepend(groups, key_value, record) ==
    IF \E g \in 1..Len(groups) : groups[g][1] = key_value
    THEN [g \in 1..Len(groups) |->
             IF groups[g][1] = key_value
             THEN <<key_value, <<record>> \o groups[g][2]>>
             ELSE groups[g]]
    ELSE Append(groups, <<key_value, <<record>>>>)

\* if key_value not in groups: groups[key_value] = [];
\* groups[key_value].append(record)
group_append(groups, key_value, record) ==
    IF \E g \in 1..Len(groups) : groups[g][1] = key_value
    THEN [g \in 1..Len(groups) |->
             IF groups[g][1] = key_value
             THEN <<key_value, Append(groups[g][2], record)>>
             ELSE groups[g]]
    ELSE Append(groups, <<key_value, <<record>>>>)

\* groups after the first n records of the loop
RECURSIVE group_loop(_, _, _)
group_loop(d, gk, n) ==
    IF n = 0 THEN <<>>
    ELSE LET groups == group_loop(d, gk, n - 1)
             record == d[n]
         IN  IF gk \in DOMAIN record
             THEN group_append(groups, record[gk], record)
             ELSE groups

custom_group_by(d, gk) == group_loop(d, gk, Len(d))

-----------------------------------------------------------------------------
(* Specification SpecGroupBy: custom_group_by applied to a bounded list    *)

\* enhanced records cut down to the fields a grouping looks at; the third
\* has no trip_type
GroupPool ==
    {[id |-> "id1", vendor_id |-> "1", trip_type |-> "Intra_Borough"],
     [id |-> "id2", vendor_id |-> "2", trip_type |-> "Intra_Borough"],
     [id |-> "id3", vendor_id |-> "1"],
     [id |-> "id4", vendor_id |-> "2", trip_type |-> "Inter_Borough"]}

GroupFields == {"vendor_id", "trip_type"}

GroupByInit ==
    /\ NoPoints /\ NoDatabase
    /\ pc = "start"
    /\ data \in SeqsUpTo(GroupPool, MaxRows)
    /\ group_key \in GroupFields
    /\ NoSortArgs /\ NoValueArgs /\ NoHeap
    /\ result = <<>>
    /\ raised = "None"
    /\ NoCleaner

CustomGroupBy ==
    /\ pc = "start"
    /\ result' = custom_group_by(data, group_key)
    /\ pc' = "done"
    /\ UNCHANGED <<libArgs, heap, idx, raised, cleanerVars>>

GroupByNext == CustomGroupBy

SpecGroupBy == GroupByInit /\ [][GroupByNext]_vars

\* positions of the records that contain the field
Keyed == {i \in 1..Len(data) : group_key \in DOMAIN data[i]}
FirstSeen(key_value) ==
    CHOOSE i \in Keyed :
        /\ data[i][group_key] = key_value
        /\ \A j \in Keyed : data[j][group_key] = key_value => i <= j
HasValue(key_value, record) ==
    group_key \in DOMAIN record /\ record[group_key] = key_value

\* C12: the result of custom_group_by has one entry per key value observed
\* in the input; the entry of a key value is the list of exactly the records
\* having that value, in input order; the entries are in the order in which
\* their key values were first seen; every record containing the field is
\* in exactly one group and the group sizes sum to the number of such
\* records
C12_GroupBy ==
    pc = "done" =>
        LET keys == GroupKeys(result)
        IN  /\ Range(keys) = {data[i][group_key] : i \in Keyed}
            /\ \A g, h \in 1..Len(result) : keys[g] = keys[h] => g = h
            /\ \A g \in 1..Len(result) :
                   result[g][2] = SelectSeq(data, LAMBDA record : HasValue(keys[g], record))
            /\ \A g, h \in 1..Len(result) :
                   g < h => FirstSeen(keys[g]) < FirstSeen(keys[h])
            /\ \A i \in Keyed :
                   Cardinality({g \in 1..Len(result) : data[i] \in Range(result[g][2])}) = 1
            /\ SumSeq([g \in 1..Len(result) |-> Len(result[g][2])]) = Cardinality(Keyed)

\* three records with the field: the first and the third share a key value
\* and are distinct, the second has another; two groups, the first of them
\* the first and the third record
C12_Witness ==
    /\ pc = "done"
    /\ Len(data) = 3
    /\ data[1] # data[3]
    /\ Len(result) = 2
    /\ result[1][2] = <<data[1], data[3]>>
    /\ result[2][2] = <<data[2]>>

-----------------------------------------------------------------------------
(* Specification SpecDistance: calculate_distance applied to two points    *)

\* the points of the city, the points of the equator and the poles that are
\* farthest apart, and two opposite points for which line 186 gives more
\* than 1.0
DistancePoints ==
    CityPoints
    \cup {<<0, 0>>, <<0, 1800000>>, <<900000, 0>>, <<-900000, 0>>,
          <<80000, -900000>>, <<-80000, 900000>>}

DistanceInit ==
    /\ pc = "start"
    /\ points \in {a \o b : a, b \in DistancePoints}
    /\ NoGroupArgs /\ NoDatabase
    /\ NoSortArgs /\ NoValueArgs /\ NoHeap
    /\ result = <<>>
    /\ raised = "None"
    /\ NoCleaner

\* the distance and the distance of the way back; a call that raises leaves
\* no result
CalculateDistance ==
    /\ pc = "start"
    /\ IF \/ calculate_distance_raises(points[1], points[2],
                                       points[3], points[4])
          \/ calculate_distance_raises(points[3], points[4],
                                       points[1], points[2])
       THEN /\ raised' = "ValueError"
            /\ UNCHANGED result
       ELSE /\ result' = <<calculate_distance(points[1], points[2],
                                              points[3], points[4]),
                           calculate_distance(points[3], points[4],
                                              points[1], points[2])>>
            /\ UNCHANGED raised
    /\ pc' = "done"
    /\ UNCHANGED <<libArgs, heap, idx, cleanerVars>>

DistanceNext == CalculateDistance

SpecDistance == DistanceInit /\ [][DistanceNext]_vars

\* C16: calculate_distance returns for every pair of points, and its value
\* is symmetric, d(A, B) = d(B, A) (the two floats are the same, which is
\* within every tolerance), is 0 when A = B, and is never negative
C16_Distance ==
    pc = "done" =>
        /\ raised = "None"
        /\ Len(result) = 2
        /\ result[1] = result[2]
        /\ (points[1] = points[3] /\ points[2] = points[4]) => result[1] = Zero
        /\ result[1][1] >= 0

\* the distance of two places of Manhattan a kilometre and a half apart
C16_Witness ==
    /\ pc = "done"
    /\ points = <<407679, -739822, 407656, -739646>>
    /\ Len(result) = 2
    /\ result[1][1] = 1
    /\ result[1] = result[2]
    /\ Thousandths(result[1]) = 1504

\* the distance of a point from itself, at a pole
C16_SamePoint ==
    /\ pc = "done"
    /\ points = <<900000, 0, 900000, 0>>
    /\ result = <<Zero, Zero>>

\* two opposite points: the sum of line 186 is the float after 1.0, its
\* square root is 1.0 and the distance is half the circumference
C16_Opposite ==
    /\ pc = "done"
    /\ points = <<80000, -900000, -80000, 900000>>
    /\ float_less(One, haversine_of(points[1], points[2], points[3], points[4]))
    /\ sqrt_table[haversine_of(points[1], points[2], points[3], points[4])] = One
    /\ raised = "None"
    /\ Thousandths(result[1]) = 20015087

-----------------------------------------------------------------------------
(* data_loader.py : TaxiDataLoader                                         *)
(*                                                                         *)
(* input_file is the file at self.csv_file, raw_data the dicts read from   *)
(* it and stats self.stats.  The database is reachable and its tables are  *)
(* empty when the loader starts; a row of trips is a record under the      *)
(* column names of the INSERT.  Timestamps are seconds since 2016-01-01,   *)
(* floats are in units of 1/FloatUnit.                                     *)

\* self.stats of __init__
ZeroLoaderStats ==
    [records_loaded |-> 0, records_failed |-> 0, batch_size |-> 1000,
     total_batches |-> 0]

EmptyDatabase == [trips |-> <<>>, trip_statistics |-> <<>>]

\* lines 85-94: csv.DictReader, as in the feature engineer
_read_enhanced_data(file) == _load_cleaned_data(file)

\* record[field] raises KeyError or strptime raises ValueError or TypeError
timestamp_raises(record, field) ==
    field \notin DOMAIN record \/ record[field] \notin DOMAIN strptime_table

\* lines 159-184: one of the conversions raises, and line 206 raises
\* Exception
prepare_raises(record) ==
    \/ ~FieldIntOk(record, "vendor_id")
    \/ timestamp_raises(record, "pickup_datetime")
    \/ timestamp_raises(record, "dropoff_datetime")
    \/ ~FieldIntOk(record, "passenger_count")
    \/ \E field \in {"pickup_longitude", "pickup_latitude",
                     "dropoff_longitude", "dropoff_latitude"} :
          ~FieldFloatOk(record, field)
    \/ ~FieldIntOk(record, "trip_duration")
    \/ \E field \in {"trip_distance_km", "trip_speed_kmh",
                     "estimated_idle_time", "efficiency_score"} :
          ~FieldFloatOk(record, field)

\* line 183: int() of a float drops the fraction, towards zero
int_of_float(x) ==
    IF x >= 0 THEN x \div FloatUnit ELSE 0 - ((0 - x) \div FloatUnit)

\* line 192
is_valid(record) == Get(record, "outlier_flag", "NORMAL") = "NORMAL"

\* lines 158-203: the tuple, when no conversion raises
_prepare_record(record) ==
    [trip_id |-> Get(record, "id", ""),
     vendor_id |-> FieldInt(record, "vendor_id", 1),
     pickup_datetime |-> strptime_table[record.pickup_datetime],
     dropoff_datetime |-> strptime_table[record.dropoff_datetime],
     passenger_count |-> FieldInt(record, "passenger_count", 1),
     pickup_longitude |-> FieldFloat(record, "pickup_longitude"),
     pickup_latitude |-> FieldFloat(record, "pickup_latitude"),
     dropoff_longitude |-> FieldFloat(record, "dropoff_longitude"),
     dropoff_latitude |-> FieldFloat(record, "dropoff_latitude"),
     store_and_fwd_flag |-> Get(record, "store_and_fwd_flag", "N"),
     trip_duration |-> FieldInt(record, "trip_duration", 0),
     trip_distance |-> FieldFloat(record, "trip_distance_km"),
     trip_speed |-> FieldFloat(record, "trip_speed_kmh"),
     idle_time |-> int_of_float(FieldFloat(record, "estimated_idle_time")),
     trip_efficiency |-> FieldFloat(record, "efficiency_score"),
     time_of_day |-> Get(record, "time_of_day", "Unknown"),
     day_of_week |-> Get(record, "day_of_week", "Unknown"),
     is_weekend |-> Get(record, "is_weekend", "False") = "True",
     is_valid |-> is_valid(record),
     quality_score |-> IF is_valid(record) THEN 100 ELSE 80,
     anomaly_flags |-> Get(record, "trip_patterns", "")]

\* lines 126-134: the tuples of the records that could be prepared
batch_records(d) ==
    LET prepared == SelectSeq(d, LAMBDA record : ~prepare_raises(record))
    IN  [j \in 1..Len(prepared) |-> _prepare_record(prepared[j])]

\* INSERT ... ON CONFLICT (trip_id) DO NOTHING, row after row
RECURSIVE insert_trips(_, _)
insert_trips(trips, rows) ==
    IF Len(rows) = 0 THEN trips
    ELSE insert_trips(IF \E t \in 1..Len(trips) : trips[t].trip_id = rows[1].trip_id
                      THEN trips ELSE Append(trips, rows[1]),
                      Tail(rows))

\* lines 216-233: one row for each date and hour of the pickups of the rows
\* of trips WHERE is_valid = true, in the order of date and hour; an average
\* is kept as <<sum, count>>
trip_statistics_of(trips) ==
    LET valid == SelectSeq(trips, LAMBDA row : row.is_valid)
        period(row) == row.pickup_datetime \div 3600
        periods == {period(valid[j]) : j \in 1..Len(valid)}
        RECURSIVE ordered(_)
        ordered(ps) ==
            IF ps = {} THEN <<>>
            ELSE LET first == CHOOSE x \in ps : \A y \in ps : x <= y
                 IN  <<first>> \o ordered(ps \ {first})
        group(x) == SelectSeq(valid, LAMBDA row : period(row) = x)
        total(x, column) ==
            SumSeq([j \in 1..Len(group(x)) |-> group(x)[j][column]])
        sorted == ordered(periods)
    IN  [j \in 1..Len(sorted) |->
            [date_period |-> sorted[j] \div 24,
             hour_period |-> sorted[j] % 24,
             total_trips |-> Len(group(sorted[j])),
             avg_duration |-> <<total(sorted[j], "trip_duration"), Len(group(sorted[j]))>>,
             avg_distance |-> <<total(sorted[j], "trip_distance"), Len(group(sorted[j]))>>,
             avg_speed |-> <<total(sorted[j], "trip_speed"), Len(group(sorted[j]))>>,
             total_passengers |-> total(sorted[j], "passenger_count")]]

-----------------------------------------------------------------------------
(* The files given to the loader: rows the cleaner and the feature         *)
(* engineer wrote                                                          *)

\* Trip1, Trip2, Trip3 and a long trip cleaned and enhanced: the first row
Enhanced1 ==
    Update(Clean1,
            [trip_distance_km |-> "1.504", trip_speed_kmh |-> "11.90",
             pickup_hour |-> "17", time_of_day |-> "Evening",
             day_of_week |-> "Monday", is_weekend |-> "False",
             pickup_month |-> "3", is_rush_hour |-> "True",
             distance_per_minute |-> "0.1983", estimated_idle_time |-> "0",
             efficiency_score |-> "29.8", trip_complexity |-> "1.68",
             pickup_borough |-> "Manhattan", dropoff_borough |-> "Manhattan",
             trip_type |-> "Intra-borough", trip_patterns |-> "Normal"])

\* the second row
Enhanced2 ==
    Update([Clean1 EXCEPT !.id = "id2", !.pickup_datetime = "2016-03-14 17:25:55",
                          !.calculated_duration = "395"],
            [trip_distance_km |-> "1.504", trip_speed_kmh |-> "11.90",
             pickup_hour |-> "17", time_of_day |-> "Evening",
             day_of_week |-> "Monday", is_weekend |-> "False",
             pickup_month |-> "3", is_rush_hour |-> "True",
             distance_per_minute |-> "0.1983", estimated_idle_time |-> "0",
             efficiency_score |-> "29.8", trip_complexity |-> "1.68",
             pickup_borough |-> "Manhattan", dropoff_borough |-> "Manhattan",
             trip_type |-> "Intra-borough", trip_patterns |-> "Normal"])

\* the third row, with the id of the first
Enhanced3 ==
    Update([Clean1 EXCEPT !.pickup_datetime = "2016-03-14 17:26:55",
                          !.calculated_duration = "335"],
            [trip_distance_km |-> "1.504", trip_speed_kmh |-> "11.90",
             pickup_hour |-> "17", time_of_day |-> "Evening",
             day_of_week |-> "Monday", is_weekend |-> "False",
             pickup_month |-> "3", is_rush_hour |-> "True",
             distance_per_minute |-> "0.1983", estimated_idle_time |-> "0",
             efficiency_score |-> "29.8", trip_complexity |-> "1.68",
             pickup_borough |-> "Manhattan", dropoff_borough |-> "Manhattan",
             trip_type |-> "Intra-borough", trip_patterns |-> "Normal"])

\* the fourth row, which the cleaner flagged
EnhancedLong ==
    Update([CleanLong EXCEPT !.id = "id3"],
            [trip_distance_km |-> "16.966", trip_speed_kmh |-> "16.97",
             pickup_hour |-> "17", time_of_day |-> "Evening",
             day_of_week |-> "Monday", is_weekend |-> "False",
             pickup_month |-> "3", is_rush_hour |-> "True",
             distance_per_minute |-> "0.2828", estimated_idle_time |-> "1",
             efficiency_score |-> "42.4", trip_complexity |-> "1.18",
             pickup_borough |-> "Bronx", dropoff_borough |-> "Manhattan",
             trip_type |-> "Inter-borough",
             trip_patterns |-> "Fast;Long;Extended;Journey"])

\* a row enhanced from a file with a pickup time that does not parse
EnhancedNoPickupTime ==
    Update([NoPickupTime EXCEPT !.id = "id4"],
            [trip_distance_km |-> "1.504", trip_speed_kmh |-> "11.90",
             pickup_hour |-> "0", time_of_day |-> "Unknown",
             day_of_week |-> "Unknown", is_weekend |-> "False",
             pickup_month |-> "1", is_rush_hour |-> "False",
             distance_per_minute |-> "0.1983", estimated_idle_time |-> "0",
             efficiency_score |-> "29.8", trip_complexity |-> "1.68",
             pickup_borough |-> "Manhattan", dropoff_borough |-> "Manhattan",
             trip_type |-> "Intra-borough", trip_patterns |-> "Short"])

EnhancedPool ==
    {Enhanced1, Enhanced2, Enhanced3, EnhancedLong, EnhancedNoPickupTime}

\* a row the feature engineer would not write (it writes max(0, ...) there):
\* load_data() reads any file it is given
NegativeIdle == [Enhanced1 EXCEPT !.estimated_idle_time = "-73.9822"]

EnhancedFiles ==
    {CsvFile(all_columns(output_columns), rows) :
        rows \in SeqsUpTo(EnhancedPool, MaxRows)}
    \cup {CsvFile(all_columns(output_columns), <<NegativeIdle>>)}

-----------------------------------------------------------------------------
(* Specification SpecLoader: one TaxiDataLoader, constructed on a file,    *)
(* running load_data once                                                  *)

LoaderInit ==
    /\ pc = "loader_constructed"
    /\ raised = "None"
    /\ input_file \in EnhancedFiles \cup {NoFile}
    /\ raw_data = <<>>
    /\ cleaned_data = <<>>
    /\ stats = ZeroLoaderStats
    /\ output_file = NoFile
    /\ report_file = NoReport
    /\ database = EmptyDatabase
    /\ NoGroupArgs /\ NoPoints
    /\ NoSortArgs /\ NoValueArgs /\ NoHeap
    /\ result = <<>>

\* lines 45-49; open() of a file that does not exist raises
\* FileNotFoundError, which load_data raises again
ReadEnhancedData ==
    /\ pc = "loader_constructed"
    /\ IF ~input_file.exists
       THEN /\ raised' = "FileNotFoundError"
            /\ pc' = "raised"
            /\ UNCHANGED raw_data
       ELSE /\ raw_data' = _read_enhanced_data(input_file)
            /\ pc' = "enhanced_read"
            /\ UNCHANGED raised
    /\ UNCHANGED <<input_file, cleaned_data, stats, output_file, report_file,
                   database, callArgs, heap, idx, result>>

\* line 52; the lists of the model fit in one batch
InsertDataBatches ==
    /\ pc = "enhanced_read"
    /\ Len(raw_data) <= stats.batch_size
    /\ LET records == batch_records(raw_data)
       IN  /\ stats' =
                [stats EXCEPT
                   !.total_batches = (Len(raw_data) + stats.batch_size - 1)
                                         \div stats.batch_size,
                   !.records_failed = @ + Len(raw_data) - Len(records),
                   !.records_loaded = @ + Len(records)]
           /\ database' =
                [database EXCEPT !.trips = insert_trips(@, records)]
    /\ pc' = "inserted"
    /\ UNCHANGED <<raised, input_file, raw_data, cleaned_data, output_file,
                   report_file, callArgs, heap, idx, result>>

\* line 55
UpdateTripStatistics ==
    /\ pc = "inserted"
    /\ database' = [database EXCEPT
                      !.trip_statistics = trip_statistics_of(database.trips)]
    /\ pc' = "statistics_updated"
    /\ UNCHANGED <<raised, input_file, raw_data, cleaned_data, stats,
                   output_file, report_file, callArgs, heap, idx, result>>

\* line 58: the report, with the counts it reads from the database
GenerateLoadingReport ==
    /\ pc = "statistics_updated"
    /\ report_file' =
         [exists |-> TRUE,
          stats |-> [records_loaded |-> stats.records_loaded,
                     records_failed |-> stats.records_failed,
                     batch_size |-> stats.batch_size,
                     total_batches |-> stats.total_batches,
                     total_trips |-> Len(database.trips),
                     valid_trips |-> Len(SelectSeq(database.trips,
                                                  LAMBDA row : row.is_valid)),
                     total_days |-> Cardinality(
                         {database.trips[t].pickup_datetime \div 86400 :
                             t \in 1..Len(database.trips)}),
                     stat_records |-> Len(database.trip_statistics)]]
    /\ pc' = "loaded_in_database"
    /\ UNCHANGED <<raised, input_file, raw_data, cleaned_data, stats,
                   output_file, database, callArgs, heap, idx, result>>

LoaderNext ==
    \/ ReadEnhancedData
    \/ InsertDataBatches
    \/ UpdateTripStatistics
    \/ GenerateLoadingReport

SpecLoader == LoaderInit /\ [][LoaderNext]_vars

\* the rows are in the table
Inserted == pc \in {"inserted", "statistics_updated", "loaded_in_database"}

\* the row of trips that came from the record, if there is one
RowOf(record) ==
    {t \in 1..Len(database.trips) :
        database.trips[t] = _prepare_record(record)}

\* C20: outlier status is kept apart from structural validity on the way
\* from the cleaner through the feature engineer to the loader: a record
\* flagged DURATION_OUTLIER is loaded like any other and the is_valid value
\* the loader gives a record does not depend on the record's outlier_flag
C20_ValidityApart ==
    Inserted =>
        \A j \in 1..Len(raw_data) :
            ~prepare_raises(raw_data[j]) =>
                /\ \E t \in 1..Len(database.trips) :
                      database.trips[t].trip_id = raw_data[j].id
                /\ \A t \in RowOf(raw_data[j]) :
                      \A flag \in {"NORMAL", "DURATION_OUTLIER"} :
                          database.trips[t].is_valid =
                              is_valid([raw_data[j] EXCEPT !.outlier_flag = flag])

\* every record that could be prepared is in the table under its id or has
\* the id of a row that was there before it
OutliersAreLoaded ==
    Inserted =>
        /\ stats.records_loaded + stats.records_failed = Len(raw_data)
        /\ \A j \in 1..Len(raw_data) :
              ~prepare_raises(raw_data[j]) =>
                  \E t \in 1..Len(database.trips) :
                      database.trips[t].trip_id = raw_data[j].id

\* the flagged trip is in the table, not valid, beside a valid one of the
\* same hour, and the statistics of the hour count one trip
OutlierNotValid ==
    /\ pc = "loaded_in_database"
    /\ Len(database.trips) = 2
    /\ \E t \in 1..2 : database.trips[t].trip_id = "id3" /\ ~database.trips[t].is_valid
    /\ \E t \in 1..2 : database.trips[t].is_valid
    /\ Len(database.trip_statistics) = 1
    /\ database.trip_statistics[1].total_trips = 1
    /\ report_file.stats.valid_trips = 1

-----------------------------------------------------------------------------
(* backend/utils.py : TimeUtils                                            *)

\* lines 104-113
get_time_period(hour) ==
    IF 5 <= hour /\ hour < 12 THEN "Morning"
    ELSE IF 12 <= hour /\ hour < 17 THEN "Afternoon"
    ELSE IF 17 <= hour /\ hour < 21 THEN "Evening"
    ELSE "Night"

\* lines 116-120
is_rush_hour(hour, is_weekend) ==
    IF is_weekend THEN FALSE
    ELSE (7 <= hour /\ hour <= 9) \/ (17 <= hour /\ hour <= 19)

-----------------------------------------------------------------------------
(* Specification SpecTemporal: _extract_temporal_features of a fresh       *)
(* TaxiFeatureEngineer applied to one record, then TimeUtils applied to    *)
(* the hour and the weekend flag of the record                             *)

\* the pickup times of the week from Monday 2016-03-14 to Sunday 2016-03-20
WeekTimes ==
    {t \in DOMAIN strptime_table :
        (strptime_table[t] \div 86400) - 73 \in 0..6}

TemporalInit ==
    /\ pc = "start"
    /\ data \in {<<[id |-> "id1", pickup_datetime |-> t]>> : t \in WeekTimes}
                \cup {<<[id |-> "id1"]>>,
                      <<[id |-> "id1", pickup_datetime |-> ""]>>}
    /\ group_key = ""
    /\ NoPoints /\ NoDatabase
    /\ NoSortArgs /\ NoValueArgs /\ NoHeap
    /\ result = <<>>
    /\ raised = "None"
    /\ input_file = NoFile
    /\ raw_data = <<>>
    /\ cleaned_data = <<>>
    /\ stats = ZeroFeatureStats
    /\ output_file = NoFile
    /\ report_file = NoReport

\* feature_engineering.py lines 143-189: the records are updated in place
ExtractTemporalFeaturesOf ==
    /\ pc = "start"
    /\ data' = [i \in 1..Len(data) |->
                   Update(data[i], temporal_features(data[i]))]
    /\ LET extracted == Cardinality({i \in 1..Len(data) :
                                        pickup_parses(data[i])})
       IN  stats' = Bump(Bump(stats, "time_features", 6 * extracted),
                         "features_created", 6 * extracted)
    /\ pc' = "extracted"
    /\ UNCHANGED <<arr, reverse, values, percentiles, multiplier, k,
                   group_key, points, database, heap, idx, result, raised,
                   input_file, raw_data, cleaned_data, output_file,
                   report_file>>

\* TimeUtils.get_time_period and TimeUtils.is_rush_hour on the hour and the
\* weekend flag of each record
ClassifyWithTimeUtils ==
    /\ pc = "extracted"
    /\ result' = [i \in 1..Len(data) |->
                     [time_period |->
                          get_time_period(int_table[data[i].pickup_hour]),
                      is_rush_hour |->
                          is_rush_hour(int_table[data[i].pickup_hour],
                                       data[i].is_weekend = "True")]]
    /\ pc' = "classified"
    /\ UNCHANGED <<libArgs, heap, idx, raised, cleanerVars>>

TemporalNext ==
    \/ ExtractTemporalFeaturesOf
    \/ ClassifyWithTimeUtils

SpecTemporal == TemporalInit /\ [][TemporalNext]_vars

\* the hour and the day of a pickup time of WeekTimes, read off the seconds:
\* 2016-03-14, day 73 of the year counted from 0, is a Monday
HourOfText(t) == (strptime_table[t] % 86400) \div 3600
DayOfText(t) ==
    <<"Monday", "Tuesday", "Wednesday", "Thursday", "Friday", "Saturday",
      "Sunday">>[(strptime_table[t] \div 86400) - 73 + 1]

\* the table of the time periods
PeriodOfHour(h) ==
    IF h \in 5..11 THEN "Morning"
    ELSE IF h \in 12..16 THEN "Afternoon"
    ELSE IF h \in 17..20 THEN "Evening"
    ELSE "Night"

\* C23: for every pickup hour 0..23 time_of_day is Morning for 5-11,
\* Afternoon for 12-16, Evening for 17-20 and Night otherwise; is_weekend is
\* True exactly on Saturday and Sunday; is_rush_hour is True exactly on a
\* weekday with the hour in 7..9 or 17..19; TimeUtils.get_time_period and
\* TimeUtils.is_rush_hour give the same answers
C23_Temporal ==
    pc = "classified" =>
        \A i \in 1..Len(data) :
            pickup_parses(data[i]) =>
                LET h == HourOfText(data[i].pickup_datetime)
                    day == DayOfText(data[i].pickup_datetime)
                    weekend == day \in {"Saturday", "Sunday"}
                    rush == ~weekend /\ h \in (7..9) \cup (17..19)
                IN  /\ int_table[data[i].pickup_hour] = h
                    /\ data[i].time_of_day = PeriodOfHour(h)
                    /\ data[i].day_of_week = day
                    /\ data[i].is_weekend = TrueFalse(weekend)
                    /\ data[i].is_rush_hour = TrueFalse(rush)
                    /\ result[i].time_period = data[i].time_of_day
                    /\ result[i].is_rush_hour = rush

\* Saturday at 8: morning, weekend, no rush hour, in both places
C23_Witness ==
    /\ pc = "classified"
    /\ pickup_parses(data[1])
    /\ data[1].pickup_datetime = "2016-03-19 08:00:00"
    /\ data[1].time_of_day = "Morning"
    /\ data[1].is_weekend = "True"
    /\ data[1].is_rush_hour = "False"
    /\ result[1] = [time_period |-> "Morning", is_rush_hour |-> FALSE]

\* Friday at 17: evening and rush hour
RushHourEvening ==
    /\ pc = "classified"
    /\ pickup_parses(data[1])
    /\ data[1].pickup_datetime = "2016-03-18 17:00:00"
    /\ data[1].time_of_day = "Evening"
    /\ data[1].is_rush_hour = "True"
    /\ result[1] = [time_period |-> "Evening", is_rush_hour |-> TRUE]

-----------------------------------------------------------------------------
(* Specification SpecRuns: two cleaning runs on one file in one process,   *)
(* the second on the same TaxiDataCleaner or on a new one                  *)

\* data_cleaner.py lines 50-75: clean_dataset returns self.stats, the dict
\* of the instance and no copy of it, and is called again on the same
\* instance; nothing of lines 50-75 touches self.stats before the file is
\* read. The caller keeps at_return, a copy of the counters made when the
\* first call returned
CleanDatasetAgain ==
    /\ pc = "done"
    /\ result = <<>>
    /\ result' = <<[at_return |-> stats, then |-> "same instance"]>>
    /\ raw_data' = <<>>
    /\ cleaned_data' = <<>>
    /\ pc' = "constructed"
    /\ UNCHANGED <<libArgs, heap, idx, raised, input_file, stats, output_file,
                   report_file>>

\* clean_dataset returns self.stats; __init__ of lines 18-48 makes a second
\* instance on the same files, with its own self.stats
CleanDatasetAnew ==
    /\ pc = "done"
    /\ result = <<>>
    /\ result' = <<[at_return |-> stats, then |-> "new instance"]>>
    /\ raw_data' = <<>>
    /\ cleaned_data' = <<>>
    /\ stats' = ZeroStats
    /\ pc' = "constructed"
    /\ UNCHANGED <<libArgs, heap, idx, raised, input_file, output_file,
                   report_file>>

\* line 75: what the dict the first call returned reads now. It is
\* self.stats of the instance the first call ran on: the second run on that
\* instance goes on incrementing it, a run on a new instance leaves it
first_returned ==
    IF result[1].then = "same instance" THEN stats ELSE result[1].at_return

RunsNext ==
    \/ ReadCsvData
    \/ RemoveDuplicates
    \/ FixMissingValues
    \/ ValidateCoordinates
    \/ ValidateDatetime
    \/ ValidateTripDuration
    \/ DetectOutliers
    \/ WriteCleanedData
    \/ GenerateCleaningReport
    \/ CleanDatasetAgain
    \/ CleanDatasetAnew

SpecRuns == Init /\ [][RunsNext]_vars

\* no counter of the bundle decreases in a step of a run
CountersGrow ==
    pc' # "constructed" => \A c \in DOMAIN stats : stats'[c] >= stats[c]

\* C25: every counter starts a run at zero and never decreases during the
\* run, and the counters a run returns depend only on the input of that run:
\* a second run on the same file returns what the first returned, whether it
\* is made on another instance or on the same one
C25_StatsPerRun ==
    /\ [](pc = "constructed" => stats = ZeroStats)
    /\ [][CountersGrow]_vars
    /\ []((pc = "done" /\ Len(result) = 1) => stats = result[1].at_return)

\* what the code keeps: the same when the second run is made on a new
\* instance, and counters that never decrease in any case
StatsPerInstance ==
    /\ []((pc = "constructed" /\ result # <<>>
             /\ result[1].then = "new instance") => stats = ZeroStats)
    /\ [][CountersGrow]_vars
    /\ []((pc = "done" /\ Len(result) = 1
             /\ result[1].then = "new instance")
            => (stats = result[1].at_return /\ first_returned = stats))

\* the second run on the same instance has counted the twelve records
\* twice, in the dict the first run handed out
CountedTwice ==
    /\ pc = "done"
    /\ Len(result) = 1
    /\ result[1].then = "same instance"
    /\ result[1].at_return.total_records = 12
    /\ result[1].at_return.invalid_records = 5
    /\ first_returned.total_records = 24
    /\ stats.total_records = 24
    /\ stats.valid_records = 7
    /\ stats.invalid_records = 17

\* the second run on a new instance returns the counters of the first
SameOnNewInstance ==
    /\ pc = "done"
    /\ Len(result) = 1
    /\ result[1].then = "new instance"
    /\ stats.total_records = 12
    /\ stats = result[1].at_return
    /\ first_returned = result[1].at_return

=============================================================================
